---------------------------- MODULE Spec2Model ----------------------------
(***************************************************************************)
(* A model of the GE:S map release assistant (ges-map-script-utility):     *)
(*   - the map script validator (map_script_builder.rs),                   *)
(*   - the directory cache (shared.rs) and its two call sites,             *)
(*   - the reslist validator (reslist_builder.rs),                         *)
(*   - the orchestrator (main.rs).                                         *)
(* Each part has its own specification (SpecMap, SpecCache, SpecRes,       *)
(* SpecOrch); the variables of the other parts stay at their idle values.  *)
(*                                                                         *)
(* Text is modelled as sequences of atoms.  An atom is one character       *)
(* (" ", "\t", "/", "{", "}", "+", "-", ".", a digit, a quote, a slash)    *)
(* or an opaque run of letters ("BaseWeight", "abc").  Two letter runs are *)
(* never adjacent in a text, so equal texts are equal sequences.           *)
(***************************************************************************)
EXTENDS Integers, Sequences, FiniteSets, TLC

VARIABLES
    \* ---- map script validator (check_map_script_file) ----
    map_pc,                 \* "idle" | "reading" | "done"
    needed_value_terms,     \* Vec<&str>: flat fields still to be found
    needed_bracket_terms,   \* Vec<&str>: sections still to be closed
    checking_term,          \* String: the section being read, <<>> when none
    map_line,               \* the line consumed by the last loop iteration
    map_result,             \* the Result of the call
    map_eof,                \* the loop ended because the reader ran out of lines
    map_seen,               \* history of the text read so far (see MapSeen0)
    \* ---- the file system ----
    fs_files,               \* the regular files: full paths, as sequences of characters
    fs_dirs,                \* the directories: full paths
    \* ---- directory caches (compute_or_get_safe_reference_to_directory_cache) ----
    mutex,                  \* per cache: the thread holding DIRLIST_INIT_STATE, or NoThread
    has_init,               \* per cache: the bool inside the mutex
    directory_cache,        \* per cache: DIRLIST, None or Some(list)
    th,                     \* per thread: where it is in its call, the call's arguments, its result
    walks,                  \* per cache: how many times a requester started to walk
    failed_walks,           \* per cache: how many of them ended in an error
    snap_key,               \* per cache: the arguments of the walk that set has_init
    snap_first,             \* per cache: the list as it was when has_init was set
    \* ---- orchestrator (main.rs) ----
    orch_mode,              \* "single" | "fullcheck" (args.fullcheck), "idle" when not run
    main_pc,                \* the main thread's place in its function
    spawned,                \* per dialect: thread::spawn was called for its task
    task_state,             \* per dialect: "notstarted" | "running" | "done"
    task_result,            \* per dialect: "none" | "ok" | "err" | "panic"
    script_exists,          \* per dialect: the release's script file is_file()
    error_code,             \* the local error_code
    exit_code,              \* what std::process::exit was called with, NoExit before
    \* ---- reslist validator (reslist_builder.rs: check_reslist) ----
    res_pc,                 \* "idle" | "open" | "tree" | "entries" | "reconcile" | "done"
    res_fullcheck,          \* args.fullcheck
    res_doc,                \* the reslist: [label, entries], entries the declared paths as written
    res_i,                  \* the capture the loop over RE.captures_iter is at
    file_list,              \* the snapshot generate_directory_tree returned
    checked_file_list,      \* checked_file_list
    res_result,             \* what check_reslist returned
    res_created,            \* the reslist at hand was written by create_reslist in this run
    \* ---- map script generator (map_script_builder.rs: create_map_script_file) ----
    map_args,               \* args: baseweight, maxplayers, minplayers, resintensity, teamthresh
    map_file,               \* the lines of the map script file, NoFile when there is none
    map_idx,                \* the line of map_file the validator's reader is at
    \* ---- music script builder (music_script_builder.rs) ----
    mus_pc,                 \* "idle" | "open" | "sound" | "tree" | "entries" | "create" | "created" | "done"
    mus_doc,                \* the music script: [label, entries], entries the file values as written
    mus_i,                  \* the capture the loop over RE.captures_iter is at
    mp3_files,              \* the snapshot generate_mp3_directory_tree returned
    mus_result,             \* what check_music_script_file or create_music_script_file returned
    mus_created,            \* the script at hand was written by create_music_script_file in this run
    \* ---- the structural checks (FILE_RE of check_music_script_file and check_reslist) ----
    shape_pc,               \* "idle" | "open" | "done"
    shape_dialect,          \* "music" | "reslist": whose FILE_RE the text is matched against
    shape_doc,              \* the script as a tree: root label, items, brace defect
    shape_text,             \* contents: the text of the script
    shape_result,           \* "none" | "match" | "format"
    \* ---- argument validation (argument_handler.rs: check_arguments) ----
    arg_pc,                 \* "idle" | "root" | "gesdir" | "ranges" | "done"
    arg_args,               \* args: fullcheck, rootdir, gesdir
    arg_map_name,           \* map_name
    arg_result,             \* what check_arguments returned
    \* ---- the fullcheck sweep (shared.rs: check_all_files_in_dir_with_func) ----
    sw_pc,                  \* "idle" | "start" | "walk" | "done"
    sw_dialect,             \* "map" | "music" | "reslist": whose fullcheck_* function runs
    sw_content,             \* what each file holds: the dialect it is a valid script of, or "junk"
    sw_visited,             \* the entries WalkDir has yielded
    sw_checked,             \* the calls of check_func so far, in order: <<check_func, file>>
    sw_result,              \* what the fullcheck_* function returned
    \* ---- a single release run (main.rs: create_or_verify_map_script_files) ----
    run_main,               \* the statement the main thread is at
    run_task,               \* per dialect: "notstarted" | "ready" | "create" | "check" | "done"
    run_result,             \* per dialect: "none" | "ok" | "err" | "panic"
    run_exists0,            \* per dialect: the script at the start of the run: "absent" | "valid" | "invalid"
    run_written,            \* the paths File::create was called on and written
    run_checked,            \* the paths a check function was called on
    run_reslist             \* the reslist create_reslist wrote: [written, entries]

mapVars == <<map_pc, needed_value_terms, needed_bracket_terms, checking_term,
             map_line, map_result, map_eof, map_seen>>

fsVars == <<fs_files, fs_dirs>>

cacheVars == <<mutex, has_init, directory_cache, th, walks, failed_walks,
               snap_key, snap_first>>

orchVars == <<orch_mode, main_pc, spawned, task_state, task_result, script_exists,
              error_code, exit_code>>

resVars == <<res_pc, res_fullcheck, res_doc, res_i, file_list, checked_file_list,
             res_result, res_created>>

genVars == <<map_args, map_file, map_idx>>

musVars == <<mus_pc, mus_doc, mus_i, mp3_files, mus_result, mus_created>>

shapeVars == <<shape_pc, shape_dialect, shape_doc, shape_text, shape_result>>

argVars == <<arg_pc, arg_args, arg_map_name, arg_result>>

swVars == <<sw_pc, sw_dialect, sw_content, sw_visited, sw_checked, sw_result>>

runVars == <<run_main, run_task, run_result, run_exists0, run_written, run_checked, run_reslist>>

vars == <<mapVars, fsVars, cacheVars, orchVars, resVars, genVars, musVars, shapeVars, argVars, swVars, runVars>>

otherThanMap   == <<fsVars, cacheVars, orchVars, resVars, genVars, musVars, shapeVars, argVars, swVars, runVars>>
otherThanCache == <<mapVars, orchVars, resVars, genVars, musVars, shapeVars, argVars, swVars, runVars>>
otherThanOrch  == <<mapVars, fsVars, cacheVars, resVars, genVars, musVars, shapeVars, argVars, swVars, runVars>>
otherThanRes   == <<mapVars, orchVars, genVars, musVars, shapeVars, argVars, swVars, runVars>>
otherThanGen   == <<fsVars, cacheVars, orchVars, resVars, musVars, shapeVars, argVars, swVars, runVars>>
otherThanMus   == <<mapVars, orchVars, resVars, genVars, shapeVars, argVars, swVars, runVars>>

-----------------------------------------------------------------------------
(* Generic helpers on sequences.                                           *)

SeqContains(s, x) == \E i \in 1..Len(s) : s[i] = x

\* Vec::retain(|x| x != &e)
Retain(s, e) == SelectSeq(s, LAMBDA x : x # e)

SeqToSet(s) == { s[i] : i \in 1..Len(s) }

\* str::starts_with
StartsWith(s, pre) ==
    /\ Len(s) >= Len(pre)
    /\ \A i \in 1..Len(pre) : s[i] = pre[i]

-----------------------------------------------------------------------------
(* Text primitives used by the map script validator.                       *)

IsWs(a) == a \in {" ", "\t"}

Digits == {"0", "1", "2", "3", "4", "5", "6", "7", "8", "9"}

DigitVal(a) ==
    CASE a = "0" -> 0 [] a = "1" -> 1 [] a = "2" -> 2 [] a = "3" -> 3
      [] a = "4" -> 4 [] a = "5" -> 5 [] a = "6" -> 6 [] a = "7" -> 7
      [] a = "8" -> 8 [] a = "9" -> 9

\* str::split_whitespace: the maximal runs of non-whitespace atoms, in order.
RECURSIVE SplitWs(_, _, _)
SplitWs(line, cur, acc) ==
    IF line = <<>>
    THEN (IF cur = <<>> THEN acc ELSE Append(acc, cur))
    ELSE IF IsWs(Head(line))
         THEN SplitWs(Tail(line), <<>>, IF cur = <<>> THEN acc ELSE Append(acc, cur))
         ELSE SplitWs(Tail(line), Append(cur, Head(line)), acc)

SplitWhitespace(line) == SplitWs(line, <<>>, <<>>)

\* Leading zeros removed (at least one digit kept).
RECURSIVE StripZeros(_)
StripZeros(ds) ==
    IF Len(ds) > 1 /\ ds[1] = "0" THEN StripZeros(Tail(ds)) ELSE ds

\* Digit strings of equal length: a <= b in the numeric (= lexicographic) order.
RECURSIVE DigitsLeq(_, _)
DigitsLeq(a, b) ==
    IF a = <<>> THEN TRUE
    ELSE IF DigitVal(a[1]) < DigitVal(b[1]) THEN TRUE
    ELSE IF DigitVal(a[1]) > DigitVal(b[1]) THEN FALSE
    ELSE DigitsLeq(Tail(a), Tail(b))

I32MaxDigits == <<"2", "1", "4", "7", "4", "8", "3", "6", "4", "7">>
I32MinDigits == <<"2", "1", "4", "7", "4", "8", "3", "6", "4", "8">>

\* str::parse::<i32>() succeeds: an optional sign, one or more ASCII digits and
\* nothing else, the value within i32.
ParsesAsI32(w) ==
    LET signed == Len(w) > 0 /\ w[1] \in {"+", "-"}
        ds     == IF signed THEN Tail(w) ELSE w
        mag    == StripZeros(ds)
        limit  == IF signed /\ w[1] = "-" THEN I32MinDigits ELSE I32MaxDigits
    IN  /\ Len(ds) > 0
        /\ \A i \in 1..Len(ds) : ds[i] \in Digits
        /\ \/ Len(mag) < Len(limit)
           \/ Len(mag) = Len(limit) /\ DigitsLeq(mag, limit)

-----------------------------------------------------------------------------
(* map_script_builder.rs: check_map_script_file.                           *)

\* A term is a word of one letter run.
NeededValueTerms0 ==
    << <<"BaseWeight">>, <<"MaxPlayers">>, <<"MinPlayers">>,
       <<"ResIntensity">>, <<"TeamThreshold">> >>

NeededBracketTerms0 ==
    << <<"WeaponsetWeights">>, <<"GamemodeWeights">>, <<"TeamGamemodeWeights">> >>

MapRunning == [kind |-> "none", type |-> "", names |-> <<>>]
MapOk      == [kind |-> "ok",   type |-> "", names |-> <<>>]
\* An Err(Error::new(InvalidData, text)): the message kind and the names it spells out.
MapErr(type, names) == [kind |-> "err", type |-> type, names |-> names]

\* Iterator::next on the rest of the split line: an Option as a sequence of 0 or 1 words.
NextWord(words, i) == IF Len(words) >= i THEN <<words[i]>> ELSE <<>>

\* Mutant of check_line_value_validity: the parse result is not looked at.
check_line_value_validity_noparse(line_identifier, line_value) ==
    IF line_value = <<>>
    THEN MapErr("ExpectedValue", <<line_identifier>>)
    ELSE MapOk

check_line_value_validity(line_identifier, line_value) ==
    IF line_value = <<>>
    THEN MapErr("ExpectedValue", <<line_identifier>>)
    ELSE IF ~ParsesAsI32(line_value[1])
         THEN MapErr("NotWholeNumber", <<line_identifier>>)
         ELSE MapOk

\* Mutant of MapLoopBody: a section name opens a section whether or not it is
\* still in needed_bracket_terms.
MapLoopBodyReopen(nv, nb, ct, line) ==
    LET words == SplitWhitespace(line)
        same  == [nv |-> nv, nb |-> nb, ct |-> ct, res |-> MapRunning]
        close == [nv |-> nv, nb |-> Retain(nb, ct), ct |-> <<>>, res |-> MapRunning]
    IN  IF StartsWith(line, <<"/", "/">>) THEN same
        ELSE IF ct = <<>>
        THEN IF words = <<>> THEN same
             ELSE IF SeqContains(nv, words[1])
                  THEN LET r == check_line_value_validity(words[1], NextWord(words, 2))
                       IN  IF r.kind = "err"
                           THEN [same EXCEPT !.res = r]
                           ELSE [same EXCEPT !.nv = Retain(nv, words[1])]
                  ELSE IF SeqContains(NeededBracketTerms0, words[1])
                       THEN [same EXCEPT !.ct = words[1]]
                       ELSE same
        ELSE IF StartsWith(line, <<"{">>) THEN same
             ELSE IF StartsWith(line, <<"}">>) THEN close
             ELSE IF words = <<>>
                  THEN [same EXCEPT !.res = MapErr("BlankLineInSection", <<ct>>)]
                  ELSE LET r == check_line_value_validity(words[1], NextWord(words, 2))
                       IN  IF r.kind = "err"
                           THEN [same EXCEPT !.res = r]
                           ELSE IF SeqContains(line, "}") THEN close ELSE same

\* One iteration of `for line in reader.lines()` on the validator's locals.
MapLoopBody(nv, nb, ct, line) ==
    LET words == SplitWhitespace(line)
        same  == [nv |-> nv, nb |-> nb, ct |-> ct, res |-> MapRunning]
        close == [nv |-> nv, nb |-> Retain(nb, ct), ct |-> <<>>, res |-> MapRunning]
    IN  IF StartsWith(line, <<"/", "/">>) THEN same
        ELSE IF ct = <<>>
        THEN IF words = <<>> THEN same
             ELSE IF SeqContains(nv, words[1])
                  THEN LET r == check_line_value_validity(words[1], NextWord(words, 2))
                       IN  IF r.kind = "err"
                           THEN [same EXCEPT !.res = r]
                           ELSE [same EXCEPT !.nv = Retain(nv, words[1])]
                  ELSE IF SeqContains(nb, words[1])
                       THEN [same EXCEPT !.ct = words[1]]
                       ELSE same
        ELSE IF StartsWith(line, <<"{">>) THEN same
             ELSE IF StartsWith(line, <<"}">>) THEN close
             ELSE IF words = <<>>
                  THEN [same EXCEPT !.res = MapErr("BlankLineInSection", <<ct>>)]
                  ELSE LET r == check_line_value_validity(words[1], NextWord(words, 2))
                       IN  IF r.kind = "err"
                           THEN [same EXCEPT !.res = r]
                           ELSE IF SeqContains(line, "}") THEN close ELSE same

\* Mutant of MapEndCheck: the bracket terms are not looked at.
MapEndCheckNoBrackets(nv, nb, ct) ==
    IF ct # <<>> THEN MapErr("EndsInSection", <<ct>>)
    ELSE IF nv # <<>> THEN MapErr("AbsentValueTerms", nv)
    ELSE MapOk

\* The checks after the loop.
MapEndCheck(nv, nb, ct) ==
    IF ct # <<>> THEN MapErr("EndsInSection", <<ct>>)
    ELSE IF nv # <<>> THEN MapErr("AbsentValueTerms", nv)
    ELSE IF nb # <<>> THEN MapErr("AbsentBracketTerms", nb)
    ELSE MapOk

-----------------------------------------------------------------------------
(* The lines a map script is drawn from.                                   *)

MapLines ==
    { <<>>,                                             \* blank line
      <<"/", "/", " ", "comment", " ", "x">>,           \* comment
      <<"BaseWeight", "\t", "7", "0", "0">>,
      <<"MaxPlayers", "\t", "1", "6">>,
      <<"MinPlayers", "\t", "0">>,
      <<"ResIntensity", "\t", "+", "7">>,
      <<"TeamThreshold", "\t", "-", "1">>,
      <<"BaseWeight", " ", "abc">>,                     \* flat field, not a number
      <<"MaxPlayers", " ", "2", "1", "4", "7", "4", "8", "3", "6", "4", "8">>,  \* > i32::MAX
      <<"MinPlayers">>,                                 \* flat field, no value
      <<"Foo", " ", "abc">>,                            \* unrecognised name
      <<"WeaponsetWeights">>,
      <<"GamemodeWeights">>,
      <<"TeamGamemodeWeights", " ", "abc">>,            \* section name with a trailing word
      <<"{">>,
      <<"{", " ", "x", " ", "y">>,
      <<"}">>,
      <<"\t", "}">>,                                    \* brace after whitespace
      <<"\t", "slappers", "\t", "\t", "0">>,
      <<"\t", "slappers", "\t", "x">>,                  \* section field, not a number
      <<"\t", "YOLT", " ", "0", " ", "}">>,             \* field, then the brace
      <<"\t", "YOLT", " ", "0", "}">>,                  \* the brace glued to the value
      <<"\t", "YOLT">> }                                \* section field, no value

\* What the text read so far contained, judged on the text alone:
\*   nonint:   a non-comment `name value` line whose value is not an i32;
\* and judged on the text and the place the validator was in when it read it:
\*   readbad:  such a line, read where the validator reads the value: at top level
\*             under a pending flat field's name, or inside a section on a line
\*             that does not start with a brace;
\*   badname:  the name on the first such line.
MapSeen0 == [nonint |-> FALSE, readbad |-> FALSE, badname |-> <<>>]

IsComment(line) == StartsWith(line, <<"/", "/">>)

NonIntValueLine(line) ==
    /\ ~IsComment(line)
    /\ Len(SplitWhitespace(line)) >= 2
    /\ ~ParsesAsI32(SplitWhitespace(line)[2])

ValueIsRead(nv, ct, line) ==
    IF ct = <<>>
    THEN SeqContains(nv, SplitWhitespace(line)[1])
    ELSE ~StartsWith(line, <<"{">>) /\ ~StartsWith(line, <<"}">>)

MapSeenAfter(seen, nv, ct, line) ==
    LET bad == NonIntValueLine(line) /\ ValueIsRead(nv, ct, line)
    IN  [nonint  |-> seen.nonint \/ NonIntValueLine(line),
         readbad |-> seen.readbad \/ bad,
         badname |-> IF ~seen.readbad /\ bad
                     THEN SplitWhitespace(line)[1] ELSE seen.badname]

MapInit ==
    /\ map_pc = "reading"
    /\ needed_value_terms = NeededValueTerms0
    /\ needed_bracket_terms = NeededBracketTerms0
    /\ checking_term = <<>>
    /\ map_line = <<>>
    /\ map_result = MapRunning
    /\ map_eof = FALSE
    /\ map_seen = MapSeen0

MapIdle ==
    /\ map_pc = "idle"
    /\ needed_value_terms = <<>>
    /\ needed_bracket_terms = <<>>
    /\ checking_term = <<>>
    /\ map_line = <<>>
    /\ map_result = MapRunning
    /\ map_eof = FALSE
    /\ map_seen = MapSeen0

\* fs::File::open fails, or the reader returns an Err for a line (`line?`).
MapIoError ==
    /\ map_pc = "reading"
    /\ map_pc' = "done"
    /\ map_result' = MapErr("Io", <<>>)
    /\ UNCHANGED <<needed_value_terms, needed_bracket_terms, checking_term,
                   map_line, map_eof, map_seen>>
    /\ UNCHANGED otherThanMap

\* One iteration of the loop on the next line of the file.
MapReadLine ==
    /\ map_pc = "reading"
    /\ \E line \in MapLines :
         LET s == MapLoopBody(needed_value_terms, needed_bracket_terms,
                              checking_term, line)
         IN  /\ map_line' = line
             /\ needed_value_terms' = s.nv
             /\ needed_bracket_terms' = s.nb
             /\ checking_term' = s.ct
             /\ map_result' = s.res
             /\ map_pc' = IF s.res.kind = "err" THEN "done" ELSE "reading"
             /\ map_seen' = MapSeenAfter(map_seen, needed_value_terms,
                                         checking_term, line)
    /\ UNCHANGED map_eof
    /\ UNCHANGED otherThanMap

\* The reader has no more lines: the checks after the loop decide.
MapEndOfFile ==
    /\ map_pc = "reading"
    /\ map_pc' = "done"
    /\ map_eof' = TRUE
    /\ map_result' = MapEndCheck(needed_value_terms, needed_bracket_terms,
                                 checking_term)
    /\ UNCHANGED <<needed_value_terms, needed_bracket_terms, checking_term,
                   map_line, map_seen>>
    /\ UNCHANGED otherThanMap

MapNext == MapReadLine \/ MapEndOfFile \/ MapIoError

-----------------------------------------------------------------------------
(* Paths.  A path is a sequence of characters; both "/" and "\\" separate  *)
(* components on disk (the tool is built for Windows installs).            *)

UpperChars == <<"A", "B", "C", "D", "E", "F", "G", "H", "I", "J", "K", "L", "M",
                "N", "O", "P", "Q", "R", "S", "T", "U", "V", "W", "X", "Y", "Z">>
LowerChars == <<"a", "b", "c", "d", "e", "f", "g", "h", "i", "j", "k", "l", "m",
                "n", "o", "p", "q", "r", "s", "t", "u", "v", "w", "x", "y", "z">>

LowerChar(c) ==
    IF \E i \in 1..26 : UpperChars[i] = c
    THEN LowerChars[CHOOSE i \in 1..26 : UpperChars[i] = c]
    ELSE c

\* str::to_lowercase
ToLowercase(p) == [i \in 1..Len(p) |-> LowerChar(p[i])]

\* str::replace("\\", "/")
SlashesForward(p) == [i \in 1..Len(p) |-> IF p[i] = "\\" THEN "/" ELSE p[i]]

\* str::replace("\"", "")
StripQuotes(p) == SelectSeq(p, LAMBDA c : c # "\"")

IsSep(c) == c \in {"/", "\\"}

\* The index of the last character of p that is in set, 0 when there is none.
LastIndex(p, set) ==
    IF \E i \in 1..Len(p) : p[i] \in set
    THEN CHOOSE i \in 1..Len(p) : p[i] \in set /\ \A j \in (i+1)..Len(p) : p[j] \notin set
    ELSE 0

\* Path::file_name: the last component.
FileName(p) == SubSeq(p, LastIndex(p, {"/", "\\"}) + 1, Len(p))

\* get_file_extension (Path::extension): what follows the last "." of the file
\* name, "" when the name has no "." or only a leading one.
get_file_extension(p) ==
    LET name == FileName(p)
        dot  == LastIndex(name, {"."})
    IN  IF dot <= 1 THEN <<>> ELSE SubSeq(name, dot + 1, Len(name))

\* Path::is_dir
IsDir(dirs, d) == d \in dirs

\* The regular files WalkDir::new(dir) yields: those below dir.
FilesBelow(files, dir) ==
    { f \in files : /\ Len(f) > Len(dir) + 1
                    /\ StartsWith(f, dir)
                    /\ IsSep(f[Len(dir) + 1]) }

\* Mutant of RelativeName: letter case is kept.
RelativeNameKeepCase(path, dir_path) ==
    LET cut  == SubSeq(path, Len(dir_path) + 1, Len(path))
        rel  == IF cut # <<>> /\ IsSep(cut[1]) THEN Tail(cut) ELSE cut
    IN  SlashesForward(rel)

\* The entry's path with the parent path and one leading slash cut off, slashes
\* forward, lowercase.
RelativeName(path, dir_path) ==
    LET cut  == SubSeq(path, Len(dir_path) + 1, Len(path))
        rel  == IF cut # <<>> /\ IsSep(cut[1]) THEN Tail(cut) ELSE cut
    IN  ToLowercase(SlashesForward(rel))

\* Mutant of get_files_in_directory: the excluded extensions are not filtered out.
get_files_in_directory_noexclude(files, dirs, files_dir, target_extension, excluded_extensions) ==
    IF ~IsDir(dirs, files_dir) THEN {}
    ELSE { RelativeName(f, files_dir) :
             f \in { g \in FilesBelow(files, files_dir) :
                       \/ target_extension = <<>>
                       \/ ToLowercase(get_file_extension(g)) = target_extension } }

\* get_files_in_directory, when no entry of the walk is an error.  The Vec is used
\* through contains() and iteration only, and WalkDir's order is unspecified: a set.
get_files_in_directory(files, dirs, files_dir, target_extension, excluded_extensions) ==
    IF ~IsDir(dirs, files_dir) THEN {}
    ELSE { RelativeName(f, files_dir) :
             f \in { g \in FilesBelow(files, files_dir) :
                       /\ \/ target_extension = <<>>
                          \/ ToLowercase(get_file_extension(g)) = target_extension
                       /\ ~(/\ excluded_extensions # {}
                            /\ ToLowercase(get_file_extension(g)) \in excluded_extensions) } }

\* reslist_builder.rs: DISALLOWED_FILETYPES
DISALLOWED_FILETYPES == { <<"b", "s", "p">>, <<"r", "e", "s">>, <<"e", "x", "e">> }

Mp3 == <<"m", "p", "3">>

-----------------------------------------------------------------------------
(* The directory caches.  Each call site owns one (mutex, flag, list):     *)
(* generate_directory_tree ("reslist") and generate_mp3_directory_tree     *)
(* ("mp3").                                                                *)

MaxCalls == 2

Threads == {"t1", "t2"}
NoThread == "none"
Sites == {"reslist", "mp3"}

None == <<>>
Some(x) == <<x>>

\* Mutant of CacheOf: both call sites hand the same statics to the cache function.
CacheOfShared(site) == "reslist"

\* The statics a call site passes: its own DIRLIST_INIT_STATE and DIRLIST.
CacheOf(site) == site

\* The directories of the model.
RootR == <<"r">>
RootQ == <<"q">>
SoundR == <<"r", "/", "s">>
SoundQ == <<"q", "/", "s">>
SoundG == <<"g", "/", "s">>

\* The arguments the call sites are called with: args.rootdir for the reslist,
\* (gesource_sound_dir, local_sound_dir) for the music validator.
SiteArgs(site) ==
    IF site = "reslist"
    THEN { <<RootR>>, <<RootQ>> }
    ELSE { <<SoundG, SoundR>>, <<SoundG, SoundQ>>, <<SoundG, SoundG>> }

\* generate_directory_tree: vec![&args.rootdir], "", DISALLOWED_FILETYPES
generate_directory_tree_key(a) ==
    [dirs |-> <<a[1]>>, target |-> <<>>, excluded |-> DISALLOWED_FILETYPES]

\* generate_mp3_directory_tree: the install's sound directory, then the local one
\* if it is a directory and another one; "mp3", &[]
generate_mp3_directory_tree_key(dirs, a) ==
    [dirs     |-> IF IsDir(dirs, a[2]) /\ a[2] # a[1] THEN <<a[1], a[2]>> ELSE <<a[1]>>,
     target   |-> Mp3,
     excluded |-> {}]

NoKey == [dirs |-> <<>>, target |-> <<>>, excluded |-> {}]
NoRet == [kind |-> "none", seen |-> {}, walked |-> FALSE]

ThreadIdle0 ==
    [pc |-> "idle", site |-> "reslist", key |-> NoKey, idx |-> 0, ret |-> NoRet,
     calls |-> 0]

\* Mutant of MutexFree: lock() never blocks.
MutexNeverHeld(c) == TRUE

\* mutex.lock() returns when no other thread holds the guard.
MutexFree(c) == mutex[c] = NoThread

\* Mutant of MustCompute: the flag is not looked at.
MustComputeAlways(c) == TRUE

\* `if !*has_init`
MustCompute(c) == ~has_init[c]

\* A thread calls one of the two call sites.
Request(t) ==
    /\ th[t].pc = "idle"
    /\ th[t].calls < MaxCalls
    /\ \E site \in Sites : \E a \in SiteArgs(site) :
         th' = [th EXCEPT ![t] =
                  [pc    |-> "lock",
                   site  |-> site,
                   key   |-> IF site = "reslist"
                             THEN generate_directory_tree_key(a)
                             ELSE generate_mp3_directory_tree_key(fs_dirs, a),
                   idx   |-> 0,
                   ret   |-> NoRet,
                   calls |-> th[t].calls + 1]]
    /\ UNCHANGED <<mutex, has_init, directory_cache, walks, failed_walks,
                   snap_key, snap_first>>
    /\ UNCHANGED <<fsVars, otherThanCache>>

\* Lines 235-247: take the guard; an uninitialised cache is reset to Some(empty).
Lock(t) ==
    LET c == CacheOf(th[t].site) IN
    /\ th[t].pc = "lock"
    /\ MutexFree(c)
    /\ mutex' = [mutex EXCEPT ![c] = t]
    /\ directory_cache' = IF MustCompute(c)
                          THEN [directory_cache EXCEPT ![c] = Some({})]
                          ELSE directory_cache
    /\ walks' = IF MustCompute(c) THEN [walks EXCEPT ![c] = @ + 1] ELSE walks
    /\ th' = [th EXCEPT ![t].pc = IF MustCompute(c) THEN "walk" ELSE "cached",
                        ![t].idx = 1]
    /\ UNCHANGED <<has_init, failed_walks, snap_key, snap_first>>
    /\ UNCHANGED <<fsVars, otherThanCache>>

\* Line 253: one directory of cache_dirs is walked and appended.
WalkDirectory(t) ==
    LET c == CacheOf(th[t].site)
        k == th[t].key
    IN
    /\ th[t].pc = "walk"
    /\ th[t].idx <= Len(k.dirs)
    /\ directory_cache' =
         [directory_cache EXCEPT ![c] =
            Some(@[1] \cup get_files_in_directory(fs_files, fs_dirs, k.dirs[th[t].idx],
                                                  k.target, k.excluded))]
    /\ th' = [th EXCEPT ![t].idx = @ + 1]
    /\ UNCHANGED <<mutex, has_init, walks, failed_walks, snap_key, snap_first>>
    /\ UNCHANGED <<fsVars, otherThanCache>>

\* Mutant of WalkError: a directory that does not exist is an error too.
WalkErrorAnyRoot(t) ==
    LET c == CacheOf(th[t].site)
        k == th[t].key
    IN
    /\ th[t].pc = "walk"
    /\ th[t].idx <= Len(k.dirs)
    /\ th' = [th EXCEPT ![t].pc = "idle",
                        ![t].ret = [kind |-> "err", seen |-> {}, walked |-> TRUE]]
    /\ mutex' = [mutex EXCEPT ![c] = NoThread]
    /\ failed_walks' = [failed_walks EXCEPT ![c] = @ + 1]
    /\ UNCHANGED <<has_init, directory_cache, walks, snap_key, snap_first>>
    /\ UNCHANGED <<fsVars, otherThanCache>>

\* Mutant of WalkError: the flag is set although the walk failed.
WalkErrorCached(t) ==
    LET c == CacheOf(th[t].site)
        k == th[t].key
    IN
    /\ th[t].pc = "walk"
    /\ th[t].idx <= Len(k.dirs)
    /\ IsDir(fs_dirs, k.dirs[th[t].idx])
    /\ th' = [th EXCEPT ![t].pc = "idle",
                        ![t].ret = [kind |-> "err", seen |-> {}, walked |-> TRUE]]
    /\ mutex' = [mutex EXCEPT ![c] = NoThread]
    /\ failed_walks' = [failed_walks EXCEPT ![c] = @ + 1]
    /\ has_init' = [has_init EXCEPT ![c] = TRUE]
    /\ snap_key' = [snap_key EXCEPT ![c] = k]
    /\ snap_first' = [snap_first EXCEPT ![c] = directory_cache[c][1]]
    /\ UNCHANGED <<directory_cache, walks>>
    /\ UNCHANGED <<fsVars, otherThanCache>>

\* Line 253, `?`: an entry of the walk of an existing directory is an error; the
\* call returns it and the guard is dropped with the flag still false.
WalkError(t) ==
    LET c == CacheOf(th[t].site)
        k == th[t].key
    IN
    /\ th[t].pc = "walk"
    /\ th[t].idx <= Len(k.dirs)
    /\ IsDir(fs_dirs, k.dirs[th[t].idx])
    /\ th' = [th EXCEPT ![t].pc = "idle",
                        ![t].ret = [kind |-> "err", seen |-> {}, walked |-> TRUE]]
    /\ mutex' = [mutex EXCEPT ![c] = NoThread]
    /\ failed_walks' = [failed_walks EXCEPT ![c] = @ + 1]
    /\ UNCHANGED <<has_init, directory_cache, walks, snap_key, snap_first>>
    /\ UNCHANGED <<fsVars, otherThanCache>>

\* Lines 255-258: every directory was walked; the flag is set, the reference is
\* returned and the guard is dropped.
FinishWalk(t) ==
    LET c == CacheOf(th[t].site)
        k == th[t].key
    IN
    /\ th[t].pc = "walk"
    /\ th[t].idx > Len(k.dirs)
    /\ has_init' = [has_init EXCEPT ![c] = TRUE]
    /\ th' = [th EXCEPT ![t].pc = "idle",
                        ![t].ret = [kind |-> "ok", seen |-> directory_cache[c][1],
                                    walked |-> TRUE]]
    /\ mutex' = [mutex EXCEPT ![c] = NoThread]
    /\ snap_key' = IF has_init[c] THEN snap_key ELSE [snap_key EXCEPT ![c] = k]
    /\ snap_first' = IF has_init[c] THEN snap_first
                     ELSE [snap_first EXCEPT ![c] = directory_cache[c][1]]
    /\ UNCHANGED <<directory_cache, walks, failed_walks>>
    /\ UNCHANGED <<fsVars, otherThanCache>>

\* Line 258 with the flag already set: the reference is returned, the guard dropped.
ReturnCached(t) ==
    LET c == CacheOf(th[t].site) IN
    /\ th[t].pc = "cached"
    /\ th' = [th EXCEPT ![t].pc = "idle",
                        ![t].ret = [kind |-> "ok", seen |-> directory_cache[c][1],
                                    walked |-> FALSE]]
    /\ mutex' = [mutex EXCEPT ![c] = NoThread]
    /\ UNCHANGED <<has_init, directory_cache, walks, failed_walks, snap_key, snap_first>>
    /\ UNCHANGED <<fsVars, otherThanCache>>

\* The files some other step of the run, or another program, may create meanwhile.
CreatableFiles ==
    { <<"r", "/", "n", ".", "t", "x", "t">>,
      <<"g", "/", "s", "/", "z", ".", "m", "p", "3">> }

CreateFile ==
    /\ \E f \in CreatableFiles \ fs_files : fs_files' = fs_files \cup {f}
    /\ UNCHANGED fs_dirs
    /\ UNCHANGED <<cacheVars, otherThanCache>>

\* The release's sound directory may appear between two calls.
CreatableDirs == { SoundQ }

CreateDir ==
    /\ \E d \in CreatableDirs \ fs_dirs : fs_dirs' = fs_dirs \cup {d}
    /\ UNCHANGED fs_files
    /\ UNCHANGED <<cacheVars, otherThanCache>>

CacheFiles0 ==
    { <<"r", "/", "a", ".", "t", "x", "t">>,
      <<"r", "\\", "M", ".", "B", "S", "P">>,
      <<"r", "/", "s", "/", "X", ".", "M", "p", "3">>,
      <<"q", "/", "b", ".", "t", "x", "t">>,
      <<"g", "/", "s", "/", "y", ".", "m", "p", "3">>,
      <<"g", "/", "s", "/", "n", ".", "t", "x", "t">> }

CacheDirs0 == { RootR, RootQ, SoundR, <<"g">>, SoundG }

CacheInit ==
    /\ fs_files = CacheFiles0
    /\ fs_dirs = CacheDirs0
    /\ mutex = [c \in Sites |-> NoThread]
    /\ has_init = [c \in Sites |-> FALSE]
    /\ directory_cache = [c \in Sites |-> None]
    /\ th = [t \in Threads |-> ThreadIdle0]
    /\ walks = [c \in Sites |-> 0]
    /\ failed_walks = [c \in Sites |-> 0]
    /\ snap_key = [c \in Sites |-> NoKey]
    /\ snap_first = [c \in Sites |-> {}]

FsIdle ==
    /\ fs_files = {}
    /\ fs_dirs = {}

CacheIdle ==
    /\ mutex = [c \in Sites |-> NoThread]
    /\ has_init = [c \in Sites |-> FALSE]
    /\ directory_cache = [c \in Sites |-> None]
    /\ th = [t \in Threads |-> ThreadIdle0]
    /\ walks = [c \in Sites |-> 0]
    /\ failed_walks = [c \in Sites |-> 0]
    /\ snap_key = [c \in Sites |-> NoKey]
    /\ snap_first = [c \in Sites |-> {}]

CacheNext ==
    \/ \E t \in Threads : Request(t)
    \/ \E t \in Threads : Lock(t)
    \/ \E t \in Threads : WalkDirectory(t)
    \/ \E t \in Threads : WalkError(t)
    \/ \E t \in Threads : FinishWalk(t)
    \/ \E t \in Threads : ReturnCached(t)
    \/ CreateFile
    \/ CreateDir

\* The caches on a file system where the root q (a release root handed to a
\* fullcheck run, which does not validate it) does not exist.
ScanInit ==
    /\ fs_files = { f \in CacheFiles0 : ~StartsWith(f, RootQ) }
    /\ fs_dirs = CacheDirs0 \ { RootQ }
    /\ mutex = [c \in Sites |-> NoThread]
    /\ has_init = [c \in Sites |-> FALSE]
    /\ directory_cache = [c \in Sites |-> None]
    /\ th = [t \in Threads |-> ThreadIdle0]
    /\ walks = [c \in Sites |-> 0]
    /\ failed_walks = [c \in Sites |-> 0]
    /\ snap_key = [c \in Sites |-> NoKey]
    /\ snap_first = [c \in Sites |-> {}]

ScanNext ==
    \/ \E t \in Threads : Request(t)
    \/ \E t \in Threads : Lock(t)
    \/ \E t \in Threads : WalkDirectory(t)
    \/ \E t \in Threads : WalkError(t)
    \/ \E t \in Threads : FinishWalk(t)
    \/ \E t \in Threads : ReturnCached(t)
    \/ CreateFile

-----------------------------------------------------------------------------
(* main.rs: create_or_verify_map_script_files and fullcheck_ges_directory. *)

Dialects == {"map", "music", "reslist"}

NoExit == -1

\* The exit status of a process whose main thread panicked.
PanicExit == 101

\* The value each `match` arm yields when the dialect's task fails.
ErrorFlag(mode, d) ==
    IF mode = "single"
    THEN CASE d = "map" -> 2 [] d = "music" -> 8 [] d = "reslist" -> 8
    ELSE CASE d = "map" -> 2 [] d = "music" -> 4 [] d = "reslist" -> 8

\* Mutant of MainOrder: the map thread is joined after the reslist step.
MainOrderJoinLate(mode) ==
    IF mode = "single"
    THEN <<"start", "music", "music_run", "reslist", "reslist_run", "join_map",
           "exit", "exited">>
    ELSE <<"start", "spawn_music", "reslist", "reslist_run", "join_music", "join_map",
           "exit", "exited">>

\* The statements of the main thread, in program order.
MainOrder(mode) ==
    IF mode = "single"
    THEN <<"start", "music", "music_run", "join_map", "reslist", "reslist_run",
           "exit", "exited">>
    ELSE <<"start", "spawn_music", "reslist", "reslist_run", "join_music", "join_map",
           "exit", "exited">>

PcAfter(mode, pc) ==
    LET order == MainOrder(mode)
        i     == CHOOSE j \in 1..Len(order) : order[j] = pc
    IN  order[i + 1]

\* JoinHandle::join returns once the thread has finished.
ThreadFinished(d) == task_state[d] = "done"

\* map_script_handle.join().unwrap_or(flag): the closure's value, the flag after a panic.
JoinValue(mode, d) ==
    IF task_result[d] = "ok" THEN 0 ELSE ErrorFlag(mode, d)

\* What a task may end with.  A spawned thread may panic (join() is then Err);
\* the music validator panics when it slices a declared path inside a character.
Outcomes(d) ==
    IF spawned[d] \/ d = "music" THEN {"ok", "err", "panic"} ELSE {"ok", "err"}

\* create_or_verify_*: a script that is no file yet is created when the task
\* succeeds; in fullcheck mode nothing is created.
ScriptExistsAfter(mode, d, outcome) ==
    IF mode = "single" /\ outcome = "ok"
    THEN [script_exists EXCEPT ![d] = TRUE]
    ELSE script_exists

\* thread::spawn for the map script task (both modes).
SpawnMap ==
    /\ main_pc = "start"
    /\ spawned' = [spawned EXCEPT !["map"] = TRUE]
    /\ main_pc' = PcAfter(orch_mode, main_pc)
    /\ UNCHANGED <<orch_mode, task_state, task_result, script_exists, error_code, exit_code>>
    /\ UNCHANGED otherThanOrch

\* thread::spawn for the music script sweep (fullcheck mode).
SpawnMusic ==
    /\ main_pc = "spawn_music"
    /\ spawned' = [spawned EXCEPT !["music"] = TRUE]
    /\ main_pc' = PcAfter(orch_mode, main_pc)
    /\ UNCHANGED <<orch_mode, task_state, task_result, script_exists, error_code, exit_code>>
    /\ UNCHANGED otherThanOrch

\* A spawned thread begins its closure.
ThreadStart(d) ==
    /\ spawned[d]
    /\ task_state[d] = "notstarted"
    /\ exit_code = NoExit
    /\ task_state' = [task_state EXCEPT ![d] = "running"]
    /\ UNCHANGED <<orch_mode, main_pc, spawned, task_result, script_exists, error_code,
                   exit_code>>
    /\ UNCHANGED otherThanOrch

\* A spawned thread's closure returns its value, or the thread panics.
ThreadFinish(d) ==
    /\ spawned[d]
    /\ task_state[d] = "running"
    /\ exit_code = NoExit
    /\ \E outcome \in Outcomes(d) :
         /\ task_result' = [task_result EXCEPT ![d] = outcome]
         /\ script_exists' = ScriptExistsAfter(orch_mode, d, outcome)
    /\ task_state' = [task_state EXCEPT ![d] = "done"]
    /\ UNCHANGED <<orch_mode, main_pc, spawned, error_code, exit_code>>
    /\ UNCHANGED otherThanOrch

\* The main thread calls the task it runs itself: the music script in a single
\* release run, the reslist in both modes.
MainStart(d) ==
    /\ main_pc = d
    /\ task_state' = [task_state EXCEPT ![d] = "running"]
    /\ main_pc' = PcAfter(orch_mode, main_pc)
    /\ UNCHANGED <<orch_mode, spawned, task_result, script_exists, error_code, exit_code>>
    /\ UNCHANGED otherThanOrch

\* The call returns; the match arm's value is stored in, or added to, error_code.
\* A panic in the call unwinds the main thread and the process ends there.
MainFinish(d) ==
    /\ \/ d = "music"   /\ main_pc = "music_run"
       \/ d = "reslist" /\ main_pc = "reslist_run"
    /\ \E outcome \in Outcomes(d) :
         /\ task_result' = [task_result EXCEPT ![d] = outcome]
         /\ script_exists' = ScriptExistsAfter(orch_mode, d, outcome)
         /\ IF outcome = "panic"
            THEN /\ main_pc' = "panicked"
                 /\ exit_code' = PanicExit
                 /\ UNCHANGED error_code
            ELSE /\ main_pc' = PcAfter(orch_mode, main_pc)
                 /\ error_code' = error_code
                                   + (IF outcome = "ok" THEN 0 ELSE ErrorFlag(orch_mode, d))
                 /\ UNCHANGED exit_code
    /\ task_state' = [task_state EXCEPT ![d] = "done"]
    /\ UNCHANGED <<orch_mode, spawned>>
    /\ UNCHANGED otherThanOrch

\* error_code += handle.join().unwrap_or(flag)
Join(d) ==
    /\ \/ d = "map"   /\ main_pc = "join_map"
       \/ d = "music" /\ main_pc = "join_music"
    /\ ThreadFinished(d)
    /\ error_code' = error_code + JoinValue(orch_mode, d)
    /\ main_pc' = PcAfter(orch_mode, main_pc)
    /\ UNCHANGED <<orch_mode, spawned, task_state, task_result, script_exists, exit_code>>
    /\ UNCHANGED otherThanOrch

\* pause_then_exit: std::process::exit(error_code) ends every thread.
Exit ==
    /\ main_pc = "exit"
    /\ exit_code' = error_code
    /\ main_pc' = PcAfter(orch_mode, main_pc)
    /\ UNCHANGED <<orch_mode, spawned, task_state, task_result, script_exists, error_code>>
    /\ UNCHANGED otherThanOrch

OrchInit ==
    /\ orch_mode \in {"single", "fullcheck"}
    /\ main_pc = "start"
    /\ spawned = [d \in Dialects |-> FALSE]
    /\ task_state = [d \in Dialects |-> "notstarted"]
    /\ task_result = [d \in Dialects |-> "none"]
    /\ script_exists \in [Dialects -> BOOLEAN]
    /\ error_code = 0
    /\ exit_code = NoExit

OrchIdle ==
    /\ orch_mode = "idle"
    /\ main_pc = "idle"
    /\ spawned = [d \in Dialects |-> FALSE]
    /\ task_state = [d \in Dialects |-> "notstarted"]
    /\ task_result = [d \in Dialects |-> "none"]
    /\ script_exists = [d \in Dialects |-> FALSE]
    /\ error_code = 0
    /\ exit_code = NoExit

OrchNext ==
    \/ SpawnMap
    \/ SpawnMusic
    \/ \E d \in {"map", "music"} : ThreadStart(d)
    \/ \E d \in {"map", "music"} : ThreadFinish(d)
    \/ \E d \in {"music", "reslist"} : MainStart(d)
    \/ \E d \in {"music", "reslist"} : MainFinish(d)
    \/ \E d \in {"map", "music"} : Join(d)
    \/ Exit

-----------------------------------------------------------------------------
(* reslist_builder.rs: check_reslist.  A reslist is its root label and the  *)
(* declared paths, in order, as the entry pattern captures them (quotation *)
(* marks included).                                                        *)

MaxEntries == 3

ResRunning == [kind |-> "running", type |-> "", names |-> {}]
ResOk      == [kind |-> "ok", type |-> "", names |-> {}]
ResErr(type, names) == [kind |-> "err", type |-> type, names |-> names]

\* No reslist file at the path.
NoDoc == [label |-> "", entries |-> <<>>]

\* The path alternatives of FILE_RE and RE: "[^"\{\}]*" or [\S&&[^"\{\}]]+
TokenOk(raw) ==
    \/ /\ Len(raw) >= 2
       /\ raw[1] = "\"" /\ raw[Len(raw)] = "\""
       /\ \A i \in 2..(Len(raw) - 1) : raw[i] \notin {"\"", "{", "}"}
    \/ /\ Len(raw) >= 1
       /\ \A i \in 1..Len(raw) : raw[i] \notin {"\"", "{", "}"} /\ ~IsWs(raw[i])

\* FILE_RE: the label is [Rr]esources, quoted or not, and the block holds at
\* least one entry, each a path of one of the two shapes followed by file.
FILE_RE_is_match(doc) ==
    /\ doc.label \in {"resources", "Resources", "\"resources\"", "\"Resources\""}
    /\ Len(doc.entries) >= 1
    /\ \A i \in 1..Len(doc.entries) : TokenOk(doc.entries[i])

\* Line 164: cap[1].replace("\"", "").replace("\\", "/").to_lowercase()
FixedPath(raw) == ToLowercase(SlashesForward(StripQuotes(raw)))

\* shared::get_string_file_extension: the extension of the path held in a string.
get_string_file_extension(p) ==
    LET name == SubSeq(p, LastIndex(p, {"/", "\\"}) + 1, Len(p))
        dot  == LastIndex(name, {"."})
    IN  IF dot <= 1 THEN <<>> ELSE SubSeq(name, dot + 1, Len(name))

\* Mutant of CheckEntry: the extension is not looked at.
CheckEntryNoExtension(files, checked, raw) ==
    LET fixed_path == FixedPath(raw) IN
    IF fixed_path \notin files
    THEN ResErr("missing", {fixed_path})
    ELSE IF SeqContains(checked, fixed_path)
    THEN ResErr("duplicate", {fixed_path})
    ELSE [kind |-> "push", type |-> "", names |-> {fixed_path}]

\* Mutant of CheckEntry: checked_file_list is not searched.
CheckEntryNoDuplicate(files, checked, raw) ==
    LET fixed_path == FixedPath(raw) IN
    IF ToLowercase(get_string_file_extension(fixed_path)) \in DISALLOWED_FILETYPES
    THEN ResErr("disallowed", {fixed_path})
    ELSE IF fixed_path \notin files
    THEN ResErr("missing", {fixed_path})
    ELSE [kind |-> "push", type |-> "", names |-> {fixed_path}]

\* Lines 164-204: one entry of the loop; "push" when the path is added to
\* checked_file_list.
CheckEntry(files, checked, raw) ==
    LET fixed_path == FixedPath(raw) IN
    IF ToLowercase(get_string_file_extension(fixed_path)) \in DISALLOWED_FILETYPES
    THEN ResErr("disallowed", {fixed_path})
    ELSE IF fixed_path \notin files
    THEN ResErr("missing", {fixed_path})
    ELSE IF SeqContains(checked, fixed_path)
    THEN ResErr("duplicate", {fixed_path})
    ELSE [kind |-> "push", type |-> "", names |-> {fixed_path}]

\* Mutant of MissingFileList: the search stops at the first file found missing.
MissingFileListFirst(files, checked) ==
    LET missing == { f \in files : ~SeqContains(checked, f) } IN
    IF missing = {} THEN {} ELSE { CHOOSE f \in missing : TRUE }

\* Mutant of MissingFileList: no file of the directory is looked for.
MissingFileListEmpty(files, checked) == {}

\* Lines 217-228: the files of the snapshot that were never checked.
MissingFileList(files, checked) == { f \in files : ~SeqContains(checked, f) }

\* Line 115: the reslist cannot be opened or read.
ResIoError ==
    /\ res_pc = "open"
    /\ res_pc' = "done"
    /\ res_result' = ResErr("io", {})
    /\ UNCHANGED <<res_created, res_fullcheck, res_doc, res_i, file_list, checked_file_list>>
    /\ UNCHANGED <<fsVars, cacheVars, otherThanRes>>

\* Lines 115-143: the contents are read and matched against FILE_RE.
ResFormat ==
    /\ res_pc = "open"
    /\ res_doc # NoDoc
    /\ IF FILE_RE_is_match(res_doc)
       THEN /\ res_pc' = "tree"
            /\ UNCHANGED res_result
       ELSE /\ res_pc' = "done"
            /\ res_result' = ResErr("format", {})
    /\ UNCHANGED <<res_created, res_fullcheck, res_doc, res_i, file_list, checked_file_list>>
    /\ UNCHANGED <<fsVars, cacheVars, otherThanRes>>

\* Line 152: generate_directory_tree(args) succeeds; the first call walks
\* args.rootdir, later ones get the cached list.
ResTree ==
    LET c    == CacheOf("reslist")
        k    == generate_directory_tree_key(<<RootR>>)
        list == IF MustCompute(c)
                THEN get_files_in_directory(fs_files, fs_dirs, k.dirs[1], k.target,
                                            k.excluded)
                ELSE directory_cache[c][1]
    IN
    /\ res_pc = "tree"
    /\ MutexFree(c)
    /\ directory_cache' = [directory_cache EXCEPT ![c] = Some(list)]
    /\ has_init' = [has_init EXCEPT ![c] = TRUE]
    /\ walks' = IF MustCompute(c) THEN [walks EXCEPT ![c] = @ + 1] ELSE walks
    /\ snap_key' = IF MustCompute(c) THEN [snap_key EXCEPT ![c] = k] ELSE snap_key
    /\ snap_first' = IF MustCompute(c) THEN [snap_first EXCEPT ![c] = list] ELSE snap_first
    /\ file_list' = list
    /\ res_i' = 1
    /\ res_pc' = "entries"
    /\ UNCHANGED <<mutex, th, failed_walks>>
    /\ UNCHANGED <<res_created, res_fullcheck, res_doc, checked_file_list, res_result>>
    /\ UNCHANGED <<fsVars, otherThanRes>>

\* Line 152, `?`: the walk of args.rootdir hits an error.
ResTreeError ==
    LET c == CacheOf("reslist") IN
    /\ res_pc = "tree"
    /\ MutexFree(c)
    /\ MustCompute(c)
    /\ IsDir(fs_dirs, RootR)
    /\ directory_cache' = [directory_cache EXCEPT ![c] = Some({})]
    /\ walks' = [walks EXCEPT ![c] = @ + 1]
    /\ failed_walks' = [failed_walks EXCEPT ![c] = @ + 1]
    /\ res_pc' = "done"
    /\ res_result' = ResErr("io", {})
    /\ UNCHANGED <<mutex, has_init, th, snap_key, snap_first>>
    /\ UNCHANGED <<res_created, res_fullcheck, res_doc, res_i, file_list, checked_file_list>>
    /\ UNCHANGED <<fsVars, otherThanRes>>

\* Lines 161-205: one capture of RE.captures_iter.
ResEntry ==
    /\ res_pc = "entries"
    /\ res_i <= Len(res_doc.entries)
    /\ LET r == CheckEntry(file_list, checked_file_list, res_doc.entries[res_i]) IN
         IF r.kind = "push"
         THEN /\ checked_file_list' =
                    Append(checked_file_list, FixedPath(res_doc.entries[res_i]))
              /\ res_i' = res_i + 1
              /\ UNCHANGED <<res_pc, res_result>>
         ELSE /\ res_result' = r
              /\ res_pc' = "done"
              /\ UNCHANGED <<res_i, checked_file_list>>
    /\ UNCHANGED <<res_created, res_fullcheck, res_doc, file_list>>
    /\ UNCHANGED <<fsVars, cacheVars, otherThanRes>>

\* Mutant of Reconcile: fullcheck mode does not opt out.
ReconcileAlways(fullcheck, files, checked) ==
    IF MissingFileList(files, checked) # {}
    THEN ResErr("undeclared", MissingFileList(files, checked))
    ELSE ResOk

\* Lines 209-248: fullcheck mode returns Ok; otherwise the files that were
\* never checked are an error that lists them all.
Reconcile(fullcheck, files, checked) ==
    IF fullcheck THEN ResOk
    ELSE IF MissingFileList(files, checked) # {}
    THEN ResErr("undeclared", MissingFileList(files, checked))
    ELSE ResOk

\* Lines 209-248: after the last capture.
ResReconcile ==
    /\ res_pc = "entries"
    /\ res_i > Len(res_doc.entries)
    /\ res_result' = Reconcile(res_fullcheck, file_list, checked_file_list)
    /\ res_pc' = "done"
    /\ UNCHANGED <<res_created, res_fullcheck, res_doc, res_i, file_list, checked_file_list>>
    /\ UNCHANGED <<fsVars, cacheVars, otherThanRes>>

RECURSIVE Orderings(_)
\* The orders in which a walk may yield the files of a list.
Orderings(S) ==
    IF S = {} THEN {<<>>}
    ELSE UNION { { <<x>> \o q : q \in Orderings(S \ {x}) } : x \in S }

\* Lines 93-102: "resources" { then one line "<file>" "file" per file }.
ReslistContents(order) ==
    [label |-> "\"resources\"",
     entries |-> [i \in 1..Len(order) |-> <<"\"">> \o order[i] \o <<"\"">>]]

\* create_reslist succeeds: the snapshot is fetched (line 78); when it is empty
\* nothing is written (84-88), otherwise the file is written (93-106).
ResCreate ==
    LET c    == CacheOf("reslist")
        k    == generate_directory_tree_key(<<RootR>>)
        list == IF MustCompute(c)
                THEN get_files_in_directory(fs_files, fs_dirs, k.dirs[1], k.target,
                                            k.excluded)
                ELSE directory_cache[c][1]
    IN
    /\ res_pc = "create"
    /\ MutexFree(c)
    /\ directory_cache' = [directory_cache EXCEPT ![c] = Some(list)]
    /\ has_init' = [has_init EXCEPT ![c] = TRUE]
    /\ walks' = IF MustCompute(c) THEN [walks EXCEPT ![c] = @ + 1] ELSE walks
    /\ snap_key' = IF MustCompute(c) THEN [snap_key EXCEPT ![c] = k] ELSE snap_key
    /\ snap_first' = IF MustCompute(c) THEN [snap_first EXCEPT ![c] = list] ELSE snap_first
    /\ IF list = {}
       THEN UNCHANGED <<res_doc, res_created>>
       ELSE /\ \E order \in Orderings(list) : res_doc' = ReslistContents(order)
            /\ res_created' = TRUE
    /\ res_result' = ResOk
    /\ res_pc' = "created"
    /\ UNCHANGED <<mutex, th, failed_walks>>
    /\ UNCHANGED <<res_fullcheck, res_i, file_list, checked_file_list>>
    /\ UNCHANGED <<fsVars, otherThanRes>>

\* create_reslist fails: the walk (line 78) or File::create / write_all (105-106).
ResCreateError ==
    /\ res_pc = "create"
    /\ res_pc' = "done"
    /\ res_result' = ResErr("io", {})
    /\ UNCHANGED <<res_created, res_fullcheck, res_doc, res_i, file_list, checked_file_list>>
    /\ UNCHANGED <<fsVars, cacheVars, otherThanRes>>

\* The reslist path is checked after it was created: test_script_creator, or
\* the next run of the tool on the release.
ResCheckCreated ==
    /\ res_pc = "created"
    /\ res_pc' = "open"
    /\ res_result' = ResRunning
    /\ UNCHANGED <<res_created, res_fullcheck, res_doc, res_i, file_list, checked_file_list>>
    /\ UNCHANGED <<fsVars, cacheVars, otherThanRes>>

\* The declared paths the reslists are written with.
ResTokens ==
    { <<"a", ".", "t", "x", "t">>,
      <<"\"", "A", ".", "T", "X", "T", "\"">>,
      <<"s", "\\", "X", ".", "M", "p", "3">>,
      <<"s", "/", "n", ".", "t", "x", "t">>,
      <<"M", ".", "b", "S", "p">>,
      <<"c", ".", "t", "x", "t">> }

ResLabels == {"resources", "\"Resources\"", "music"}

RECURSIVE SeqsUpTo(_, _)
SeqsUpTo(S, n) ==
    IF n = 0 THEN {<<>>}
    ELSE LET shorter == SeqsUpTo(S, n - 1) IN
         shorter \cup { Append(q, x) : q \in { r \in shorter : Len(r) = n - 1 }, x \in S }

ResDocs == [label : ResLabels, entries : SeqsUpTo(ResTokens, MaxEntries)]

\* The release roots the validator is run on.
ResFiles0 ==
    { { <<"r", "/", "a", ".", "t", "x", "t">>,
        <<"r", "\\", "M", ".", "B", "S", "P">>,
        <<"r", "/", "s", "/", "X", ".", "M", "p", "3">>,
        <<"r", "/", "s", "/", "n", ".", "t", "x", "t">>,
        <<"q", "/", "c", ".", "t", "x", "t">> },
      { <<"r", "/", "a", ".", "t", "x", "t">> },
      { <<"r", "/", "a", ".", "t", "x", "t">>,
        <<"r", "/", "b", "{", "1", "}", ".", "t", "x", "t">> },
      { <<"r", "\\", "M", ".", "B", "S", "P">> } }

\* check_reslist is run on an existing reslist, or create_reslist is run at a
\* path where there is none.
ResInit ==
    /\ fs_files \in ResFiles0
    /\ fs_dirs = { RootR, SoundR, RootQ }
    /\ \/ res_pc = "open" /\ res_doc \in ResDocs
       \/ res_pc = "create" /\ res_doc = NoDoc
    /\ res_fullcheck \in BOOLEAN
    /\ res_created = FALSE
    /\ res_i = 0
    /\ file_list = {}
    /\ checked_file_list = <<>>
    /\ res_result = ResRunning

ResIdle ==
    /\ res_pc = "idle"
    /\ res_fullcheck = FALSE
    /\ res_created = FALSE
    /\ res_doc = NoDoc
    /\ res_i = 0
    /\ file_list = {}
    /\ checked_file_list = <<>>
    /\ res_result = ResRunning

ResNext ==
    \/ ResIoError
    \/ ResFormat
    \/ ResTree
    \/ ResTreeError
    \/ ResEntry
    \/ ResReconcile
    \/ ResCreate
    \/ ResCreateError
    \/ ResCheckCreated

-----------------------------------------------------------------------------
(* map_script_builder.rs: create_map_script_file, and check_map_script_file *)
(* reading the file it wrote.                                              *)

NoFile == << <<"no file">> >>

DigitChar(d) ==
    CASE d = 0 -> "0" [] d = 1 -> "1" [] d = 2 -> "2" [] d = 3 -> "3" [] d = 4 -> "4"
      [] d = 5 -> "5" [] d = 6 -> "6" [] d = 7 -> "7" [] d = 8 -> "8" [] d = 9 -> "9"

\* The decimal digits of n >= 0, "" for 0.
RECURSIVE PosDigits(_)
PosDigits(n) ==
    IF n = 0 THEN <<>> ELSE Append(PosDigits(n \div 10), DigitChar(n % 10))

\* The decimal digits of the magnitude of n <= 0, "" for 0 (i32::MIN has no
\* positive counterpart).
RECURSIVE NegDigits(_)
NegDigits(n) ==
    IF n = 0 THEN <<>>
    ELSE LET d == (10 - (n % 10)) % 10
         IN  Append(NegDigits((n + d) \div 10), DigitChar(d))

\* Mutant of to_string: negative numbers are written in brackets.
to_string_bracketed(n) ==
    IF n = 0 THEN <<"0">>
    ELSE IF n > 0 THEN PosDigits(n)
    ELSE <<"(">> \o NegDigits(n) \o <<")">>

\* i32::to_string
to_string(n) ==
    IF n = 0 THEN <<"0">>
    ELSE IF n > 0 THEN PosDigits(n)
    ELSE <<"-">> \o NegDigits(n)

CommentLine == <<"/", "/", " ", "comment">>

\* Lines 71-107: the contents, as the lines a reader splits them into at "\r\n".
MapScriptContents(a) ==
    << CommentLine, <<>>, CommentLine, CommentLine, CommentLine, CommentLine,
       CommentLine, CommentLine, CommentLine, <<>>,
       <<"BaseWeight", "\t">> \o to_string(a.baseweight),
       <<"MaxPlayers", "\t">> \o to_string(a.maxplayers),
       <<"MinPlayers", "\t">> \o to_string(a.minplayers),
       <<"ResIntensity", "\t">> \o to_string(a.resintensity),
       <<"TeamThreshold", "\t">> \o to_string(a.teamthresh),
       <<>>,
       CommentLine, CommentLine,
       <<"WeaponsetWeights">>, <<"{">>, <<"\t", "slappers", "\t", "\t", "0">>, <<"}">>,
       <<>>,
       CommentLine, CommentLine, CommentLine,
       <<"GamemodeWeights">>, <<"{">>, <<"\t", "YOLT", "\t", "\t", "0">>, <<"}">>,
       <<>>,
       CommentLine,
       <<"TeamGamemodeWeights">>, <<"{">>, <<"\t", "CaptureTheFlag", "\t", "\t", "0">>, <<"}">>,
       <<>> >>

\* create_map_script_file succeeds.
MapCreate ==
    /\ map_pc = "create"
    /\ map_file' = MapScriptContents(map_args)
    /\ map_idx' = 1
    /\ map_pc' = "created"
    /\ UNCHANGED <<map_args, needed_value_terms, needed_bracket_terms, checking_term,
                   map_line, map_result, map_eof, map_seen>>
    /\ UNCHANGED otherThanGen

\* fs::File::create or write_all fails (lines 65, 110).
MapCreateError ==
    /\ map_pc = "create"
    /\ map_pc' = "done"
    /\ map_result' = MapErr("Io", <<>>)
    /\ UNCHANGED <<map_args, map_file, map_idx, needed_value_terms, needed_bracket_terms,
                   checking_term, map_line, map_eof, map_seen>>
    /\ UNCHANGED otherThanGen

\* check_map_script_file is called on the written file (lines 125-128).
MapCheckCreated ==
    /\ map_pc = "created"
    /\ map_pc' = "checking"
    /\ needed_value_terms' = NeededValueTerms0
    /\ needed_bracket_terms' = NeededBracketTerms0
    /\ checking_term' = <<>>
    /\ UNCHANGED <<map_args, map_file, map_idx, map_line, map_result, map_eof, map_seen>>
    /\ UNCHANGED otherThanGen

\* fs::File::open fails, or the reader returns an Err for a line.
MapFileIoError ==
    /\ map_pc = "checking"
    /\ map_pc' = "done"
    /\ map_result' = MapErr("Io", <<>>)
    /\ UNCHANGED <<map_args, map_file, map_idx, needed_value_terms, needed_bracket_terms,
                   checking_term, map_line, map_eof, map_seen>>
    /\ UNCHANGED otherThanGen

\* One iteration of the loop on the next line of the written file.
MapReadFileLine ==
    /\ map_pc = "checking"
    /\ map_idx <= Len(map_file)
    /\ LET line == map_file[map_idx]
           s    == MapLoopBody(needed_value_terms, needed_bracket_terms,
                               checking_term, line)
       IN  /\ map_line' = line
           /\ needed_value_terms' = s.nv
           /\ needed_bracket_terms' = s.nb
           /\ checking_term' = s.ct
           /\ map_result' = s.res
           /\ map_pc' = IF s.res.kind = "err" THEN "done" ELSE "checking"
           /\ map_seen' = MapSeenAfter(map_seen, needed_value_terms, checking_term, line)
    /\ map_idx' = map_idx + 1
    /\ UNCHANGED <<map_args, map_file, map_eof>>
    /\ UNCHANGED otherThanGen

\* The written file has no more lines: the checks after the loop decide.
MapFileEnd ==
    /\ map_pc = "checking"
    /\ map_idx > Len(map_file)
    /\ map_pc' = "done"
    /\ map_eof' = TRUE
    /\ map_result' = MapEndCheck(needed_value_terms, needed_bracket_terms,
                                 checking_term)
    /\ UNCHANGED <<map_args, map_file, map_idx, needed_value_terms, needed_bracket_terms,
                   checking_term, map_line, map_seen>>
    /\ UNCHANGED otherThanGen

\* The values the five parameters are drawn from.
I32Samples == { -2147483647 - 1, -1, 0, 2147483647 }

GenInit ==
    /\ map_args \in [baseweight : I32Samples, maxplayers : I32Samples,
                     minplayers : I32Samples, resintensity : I32Samples,
                     teamthresh : I32Samples]
    /\ map_file = NoFile
    /\ map_idx = 0
    /\ map_pc = "create"
    /\ needed_value_terms = <<>>
    /\ needed_bracket_terms = <<>>
    /\ checking_term = <<>>
    /\ map_line = <<>>
    /\ map_result = MapRunning
    /\ map_eof = FALSE
    /\ map_seen = MapSeen0

GenIdle ==
    /\ map_args = [baseweight |-> 0, maxplayers |-> 0, minplayers |-> 0,
                   resintensity |-> 0, teamthresh |-> 0]
    /\ map_file = NoFile
    /\ map_idx = 0

GenNext ==
    \/ MapCreate
    \/ MapCreateError
    \/ MapCheckCreated
    \/ MapFileIoError
    \/ MapReadFileLine
    \/ MapFileEnd

-----------------------------------------------------------------------------
(* music_script_builder.rs: check_music_script_file and                    *)
(* create_music_script_file.  A music script is its root label and the     *)
(* file values, in order, as the entry pattern captures them.  A character *)
(* is one byte long, except "U+00E9", which stands for a two-byte one.     *)

MaxValues == 2

MusRunning == [kind |-> "running", type |-> "", names |-> {}]
MusOk      == [kind |-> "ok", type |-> "", names |-> {}]
MusErr(type, names) == [kind |-> "err", type |-> type, names |-> names]
\* The thread panicked inside the call.
MusPanic   == [kind |-> "panic", type |-> "", names |-> {}]

CharLen(c) == IF c = "U+00E9" THEN 2 ELSE 1

\* str::len: the length in bytes.
RECURSIVE ByteLen(_)
ByteLen(p) == IF p = <<>> THEN 0 ELSE CharLen(Head(p)) + ByteLen(Tail(p))

\* str::is_char_boundary
IsCharBoundary(p, b) == \E k \in 0..Len(p) : ByteLen(SubSeq(p, 1, k)) = b

\* &p[b..], for b a character boundary.
SliceFrom(p, b) ==
    LET k == CHOOSE j \in 0..Len(p) : ByteLen(SubSeq(p, 1, j)) = b
    IN  SubSeq(p, k + 1, Len(p))

\* FILE_RE of the music validator: the label is music, quoted or not, and
\* every file value has one of the two path shapes.
MUSIC_FILE_RE_is_match(doc) ==
    /\ doc.label \in {"music", "\"music\""}
    /\ \A i \in 1..Len(doc.entries) : TokenOk(doc.entries[i])

\* Line 195: cap[4].replace("\"", "").replace("\\", "/").to_lowercase()
MusicFixedPath(raw) == ToLowercase(SlashesForward(StripQuotes(raw)))

\* Lines 195-219: one capture of the loop; MusRunning when the loop goes on.
MusicCheckEntry(files, raw) ==
    LET fixed_path == MusicFixedPath(raw)
        len        == ByteLen(fixed_path)
    IN  IF len > 3 /\ ~IsCharBoundary(fixed_path, len - 3)
        THEN MusPanic
        ELSE IF len > 3 /\ ToLowercase(SliceFrom(fixed_path, len - 3)) # Mp3
        THEN MusErr("notmp3", {fixed_path})
        ELSE IF fixed_path \notin files
        THEN MusErr("missing", {fixed_path})
        ELSE MusRunning

\* Lines 111-115: the script cannot be opened or read.
MusIoError ==
    /\ mus_pc = "open"
    /\ mus_pc' = "done"
    /\ mus_result' = MusErr("io", {})
    /\ UNCHANGED <<mus_doc, mus_i, mp3_files, mus_created>>
    /\ UNCHANGED <<fsVars, cacheVars, otherThanMus>>

\* Lines 111-156: the contents are read and matched against FILE_RE.
MusFormat ==
    /\ mus_pc = "open"
    /\ mus_doc # NoDoc
    /\ IF MUSIC_FILE_RE_is_match(mus_doc)
       THEN /\ mus_pc' = "sound"
            /\ UNCHANGED mus_result
       ELSE /\ mus_pc' = "done"
            /\ mus_result' = MusErr("format", {})
    /\ UNCHANGED <<mus_doc, mus_i, mp3_files, mus_created>>
    /\ UNCHANGED <<fsVars, cacheVars, otherThanMus>>

\* Lines 161-171: without a sound directory in the install the validator
\* prints a warning and returns Ok.
MusSoundDir ==
    /\ mus_pc = "sound"
    /\ IF IsDir(fs_dirs, SoundG)
       THEN /\ mus_pc' = "tree"
            /\ UNCHANGED mus_result
       ELSE /\ mus_pc' = "done"
            /\ mus_result' = MusOk
    /\ UNCHANGED <<mus_doc, mus_i, mp3_files, mus_created>>
    /\ UNCHANGED <<fsVars, cacheVars, otherThanMus>>

\* Line 182: generate_mp3_directory_tree succeeds; the first call walks the
\* install's and the release's sound directory, later ones get the cached list.
MusTree ==
    LET c    == CacheOf("mp3")
        k    == generate_mp3_directory_tree_key(fs_dirs, <<SoundG, SoundR>>)
        list == IF MustCompute(c)
                THEN UNION { get_files_in_directory(fs_files, fs_dirs, k.dirs[i], k.target,
                                                    k.excluded) : i \in 1..Len(k.dirs) }
                ELSE directory_cache[c][1]
    IN
    /\ mus_pc = "tree"
    /\ MutexFree(c)
    /\ directory_cache' = [directory_cache EXCEPT ![c] = Some(list)]
    /\ has_init' = [has_init EXCEPT ![c] = TRUE]
    /\ walks' = IF MustCompute(c) THEN [walks EXCEPT ![c] = @ + 1] ELSE walks
    /\ snap_key' = IF MustCompute(c) THEN [snap_key EXCEPT ![c] = k] ELSE snap_key
    /\ snap_first' = IF MustCompute(c) THEN [snap_first EXCEPT ![c] = list] ELSE snap_first
    /\ mp3_files' = list
    /\ mus_i' = 1
    /\ mus_pc' = "entries"
    /\ UNCHANGED <<mutex, th, failed_walks>>
    /\ UNCHANGED <<mus_doc, mus_result, mus_created>>
    /\ UNCHANGED <<fsVars, otherThanMus>>

\* Line 182, `?`: a walk hits an error.
MusTreeError ==
    LET c == CacheOf("mp3") IN
    /\ mus_pc = "tree"
    /\ MutexFree(c)
    /\ MustCompute(c)
    /\ directory_cache' = [directory_cache EXCEPT ![c] = Some({})]
    /\ walks' = [walks EXCEPT ![c] = @ + 1]
    /\ failed_walks' = [failed_walks EXCEPT ![c] = @ + 1]
    /\ mus_pc' = "done"
    /\ mus_result' = MusErr("io", {})
    /\ UNCHANGED <<mutex, has_init, th, snap_key, snap_first>>
    /\ UNCHANGED <<mus_doc, mus_i, mp3_files, mus_created>>
    /\ UNCHANGED <<fsVars, otherThanMus>>

\* Lines 193-219: one capture of RE.captures_iter.
MusEntry ==
    /\ mus_pc = "entries"
    /\ mus_i <= Len(mus_doc.entries)
    /\ LET r == MusicCheckEntry(mp3_files, mus_doc.entries[mus_i]) IN
         IF r = MusRunning
         THEN /\ mus_i' = mus_i + 1
              /\ UNCHANGED <<mus_pc, mus_result>>
         ELSE /\ mus_result' = r
              /\ mus_pc' = "done"
              /\ UNCHANGED mus_i
    /\ UNCHANGED <<mus_doc, mp3_files, mus_created>>
    /\ UNCHANGED <<fsVars, cacheVars, otherThanMus>>

\* Line 223: after the last capture.
MusFinish ==
    /\ mus_pc = "entries"
    /\ mus_i > Len(mus_doc.entries)
    /\ mus_result' = MusOk
    /\ mus_pc' = "done"
    /\ UNCHANGED <<mus_doc, mus_i, mp3_files, mus_created>>
    /\ UNCHANGED <<fsVars, cacheVars, otherThanMus>>

\* Lines 80-87: the built-in example list.
ExampleMusic ==
    << <<"m", "u", "s", "i", "c", "/", "c", "l", "a", "s", "s", "y", ".", "m", "p", "3">>,
      <<"m", "u", "s", "i", "c", "/", "s", "p", "y", ".", "m", "p", "3">>,
      <<"m", "u", "s", "i", "c", "/", "a", "l", "w", "a", "y", "s", "_", "b", "e", "t", "t", "e", "r", ".", "m", "p", "3">>,
      <<"m", "u", "s", "i", "c", "/", "s", "h", "a", "k", "e", "n", "_", "a", "n", "d", "_", "s", "t", "i", "r", "r", "e", "d", ".", "m", "p", "3">>,
      <<"m", "u", "s", "i", "c", "/", "m", "a", "r", "t", "i", "n", "i", ".", "m", "p", "3">>,
      <<"m", "u", "s", "i", "c", "/", "s", "t", "a", "n", "d", "a", "r", "d", "_", "o", "p", "e", "r", "a", "t", "i", "n", "g", "_", "p", "r", "o", "c", "e", "d", "u", "r", "e", ".", "m", "p", "3">> >>

\* Lines 89-99: "music" { then one line "file" "<name>" per file }.
MusicContents(order) ==
    [label |-> "\"music\"",
     entries |-> [i \in 1..Len(order) |-> <<"\"">> \o order[i] \o <<"\"">>]]

\* create_music_script_file succeeds: the mp3 files below the release's sound
\* directory (line 75), the example list when there are none, are written.
MusCreate ==
    LET found  == get_files_in_directory(fs_files, fs_dirs, SoundR, Mp3, {})
        orders == IF found = {} THEN {ExampleMusic} ELSE Orderings(found)
    IN
    /\ mus_pc = "create"
    /\ \E order \in orders : mus_doc' = MusicContents(order)
    /\ mus_created' = TRUE
    /\ mus_result' = MusOk
    /\ mus_pc' = "created"
    /\ UNCHANGED <<mus_i, mp3_files>>
    /\ UNCHANGED <<fsVars, cacheVars, otherThanMus>>

\* create_music_script_file fails: the walk (line 75) or File::create / write_all.
MusCreateError ==
    /\ mus_pc = "create"
    /\ mus_pc' = "done"
    /\ mus_result' = MusErr("io", {})
    /\ UNCHANGED <<mus_doc, mus_i, mp3_files, mus_created>>
    /\ UNCHANGED <<fsVars, cacheVars, otherThanMus>>

\* The script is checked after it was created: test_script_creator, or the
\* next run of the tool on the release.
MusCheckCreated ==
    /\ mus_pc = "created"
    /\ mus_pc' = "open"
    /\ mus_result' = MusRunning
    /\ UNCHANGED <<mus_doc, mus_i, mp3_files, mus_created>>
    /\ UNCHANGED <<fsVars, cacheVars, otherThanMus>>

\* The file values the music scripts are written with.
MusTokens ==
    { <<"y", ".", "m", "p", "3">>,
      <<"\"", "D", "\\", "X", ".", "M", "P", "3", "\"">>,
      <<"n", ".", "m", "p", "3">>,
      <<"a", ".", "w", "a", "v">>,
      <<"a", "b">>,
      <<"a", "U+00E9", "x", "y">> }

MusLabels == {"music", "\"music\"", "Music"}

MusDocs == [label : MusLabels, entries : SeqsUpTo(MusTokens, MaxValues)]

\* The install and the release the music builder is run on: the files and the
\* directories.
MusWorlds ==
    { [files |-> { <<"g", "/", "s", "/", "y", ".", "m", "p", "3">>,
                   <<"g", "/", "s", "/", "n", ".", "t", "x", "t">>,
                   <<"r", "/", "s", "/", "d", "/", "X", ".", "M", "p", "3">> },
       dirs  |-> { <<"g">>, SoundG, RootR, SoundR }],
      [files |-> { <<"r", "/", "s", "/", "d", "/", "X", ".", "M", "p", "3">> },
       dirs  |-> { <<"g">>, RootR, SoundR }],
      [files |-> { <<"g", "/", "s", "/", "y", ".", "m", "p", "3">> },
       dirs  |-> { <<"g">>, SoundG, RootR }],
      [files |-> { <<"g", "/", "s", "/", "m", "u", "s", "i", "c", "/", "c", "l", "a", "s", "s", "y", ".", "m", "p", "3">>,
                   <<"g", "/", "s", "/", "m", "u", "s", "i", "c", "/", "s", "p", "y", ".", "m", "p", "3">>,
                   <<"g", "/", "s", "/", "m", "u", "s", "i", "c", "/", "a", "l", "w", "a", "y", "s", "_", "b", "e", "t", "t", "e", "r", ".", "m", "p", "3">>,
                   <<"g", "/", "s", "/", "m", "u", "s", "i", "c", "/", "s", "h", "a", "k", "e", "n", "_", "a", "n", "d", "_", "s", "t", "i", "r", "r", "e", "d", ".", "m", "p", "3">>,
                   <<"g", "/", "s", "/", "m", "u", "s", "i", "c", "/", "m", "a", "r", "t", "i", "n", "i", ".", "m", "p", "3">>,
                   <<"g", "/", "s", "/", "m", "u", "s", "i", "c", "/", "s", "t", "a", "n", "d", "a", "r", "d", "_", "o", "p", "e", "r", "a", "t", "i", "n", "g", "_", "p", "r", "o", "c", "e", "d", "u", "r", "e", ".", "m", "p", "3">> },
       dirs  |-> { <<"g">>, SoundG, RootR }],
      [files |-> { <<"g", "/", "s", "/", "y", ".", "m", "p", "3">>,
                   <<"r", "/", "s", "/", "a", "{", "1", "}", ".", "m", "p", "3">> },
       dirs  |-> { <<"g">>, SoundG, RootR, SoundR }] }

\* check_music_script_file is run on an existing script, or
\* create_music_script_file is run at a path where there is none.
MusInit ==
    /\ \E w \in MusWorlds : fs_files = w.files /\ fs_dirs = w.dirs
    /\ \/ mus_pc = "open" /\ mus_doc \in MusDocs
       \/ mus_pc = "create" /\ mus_doc = NoDoc
    /\ mus_i = 0
    /\ mp3_files = {}
    /\ mus_result = MusRunning
    /\ mus_created = FALSE

MusIdle ==
    /\ mus_pc = "idle"
    /\ mus_doc = NoDoc
    /\ mus_i = 0
    /\ mp3_files = {}
    /\ mus_result = MusRunning
    /\ mus_created = FALSE

MusNext ==
    \/ MusIoError
    \/ MusFormat
    \/ MusSoundDir
    \/ MusTree
    \/ MusTreeError
    \/ MusEntry
    \/ MusFinish
    \/ MusCreate
    \/ MusCreateError
    \/ MusCheckCreated

-----------------------------------------------------------------------------
(* The structural checks: FILE_RE of check_music_script_file and of         *)
(* check_reslist, matched against the text of the script.  The regular      *)
(* expressions are anchored, so the whole text has to match.  A match is    *)
(* computed as the set of positions the expression can reach: from a set P  *)
(* of positions (the index of the next atom to read), a piece of the        *)
(* expression leads to the positions after every way it can match.          *)

otherThanShape == <<mapVars, fsVars, cacheVars, orchVars, resVars, genVars, musVars, argVars, swVars, runVars>>

\* \s*
ReWs0(t, P) ==
    { q \in 1..(Len(t) + 1) : \E p \in P : p <= q /\ \A i \in p..(q - 1) : IsWs(t[i]) }

\* \s+
ReWs1(t, P) ==
    { q \in 1..(Len(t) + 1) : \E p \in P : p < q /\ \A i \in p..(q - 1) : IsWs(t[i]) }

\* One literal: a brace, a quotation mark or a word.
ReAtom(t, P, a) == { p + 1 : p \in { x \in P : x <= Len(t) /\ t[x] = a } }

\* [^"\{\}]
PathChar(c) == c \notin {"\"", "{", "}"}

\* "[^"\{\}]*"
ReQuoted(t, P) ==
    { q + 1 : q \in { r \in 1..Len(t) :
                        \E p \in P : /\ p < r
                                     /\ t[p] = "\"" /\ t[r] = "\""
                                     /\ \A i \in (p + 1)..(r - 1) : PathChar(t[i]) } }

\* [\S&&[^"\{\}]]+ : it may stop anywhere inside a run of such characters.
ReBare(t, P) ==
    { q \in 2..(Len(t) + 1) :
        \E p \in P : p < q /\ \A i \in p..(q - 1) : PathChar(t[i]) /\ ~IsWs(t[i]) }

\* ("[^"\{\}]*")|([\S&&[^"\{\}]]+)
RePath(t, P) == ReQuoted(t, P) \cup ReBare(t, P)

\* ("w")|(w)
ReWord(t, P, w) ==
    ReAtom(t, P, w) \cup ReAtom(t, ReAtom(t, ReAtom(t, P, "\""), w), "\"")

\* Music, line 136: \s*(("file")|(file))\s+(<path>)\s*
MusicReEntry(t, P) == ReWs0(t, RePath(t, ReWs1(t, ReWord(t, ReWs0(t, P), "file"))))

RECURSIVE MusicReEntries(_, _)
\* ( <entry> )* from P
MusicReEntries(t, P) ==
    LET Q == P \cup MusicReEntry(t, P)
    IN  IF Q = P THEN P ELSE MusicReEntries(t, Q)

\* Music, lines 139-142: <path>\s*\{\s*( <entry> )+\}\s*
MusicReSubBlock(t, P) ==
    LET open == ReWs0(t, ReAtom(t, ReWs0(t, RePath(t, P)), "{"))
    IN  ReWs0(t, ReAtom(t, MusicReEntries(t, MusicReEntry(t, open)), "}"))

RECURSIVE MusicReItems(_, _)
\* Music, lines 135-144: ( <entry> | <sub-block> )* from P
MusicReItems(t, P) ==
    LET Q == P \cup MusicReEntry(t, P) \cup MusicReSubBlock(t, P)
    IN  IF Q = P THEN P ELSE MusicReItems(t, Q)

\* FILE_RE.is_match(&contents) of check_music_script_file (lines 133-148)
MusicFileReMatches(t) ==
    LET label == ReWord(t, ReWs0(t, {1}), "music")
        open  == ReWs0(t, ReAtom(t, ReWs0(t, label), "{"))
    IN  (Len(t) + 1) \in ReWs0(t, ReAtom(t, MusicReItems(t, open), "}"))

\* Reslist, line 131: \s*(<path>)\s+(("file")|(file))\s*
ReslistReEntry(t, P) == ReWs0(t, ReWord(t, ReWs1(t, RePath(t, ReWs0(t, P))), "file"))

RECURSIVE ReslistReEntries(_, _)
\* ( <entry> )* from P
ReslistReEntries(t, P) ==
    LET Q == P \cup ReslistReEntry(t, P)
    IN  IF Q = P THEN P ELSE ReslistReEntries(t, Q)

\* Mutant of ReslistReLabel: the label is matched whatever the case of its letters.
ReslistReLabelAnyCase(t, P) ==
    ReWord(t, P, "resources") \cup ReWord(t, P, "Resources")
        \cup ReWord(t, P, "RESOURCES")

\* Reslist, line 129: ("[Rr]esources")|([Rr]esources)
ReslistReLabel(t, P) == ReWord(t, P, "resources") \cup ReWord(t, P, "Resources")

\* FILE_RE.is_match(&contents) of check_reslist (lines 129-135)
ReslistFileReMatches(t) ==
    LET open == ReAtom(t, ReWs0(t, ReslistReLabel(t, ReWs0(t, {1}))), "{")
    IN  (Len(t) + 1) \in
            ReWs0(t, ReAtom(t, ReslistReEntries(t, ReslistReEntry(t, open)), "}"))

\* ---- the scripts the checks are run on ----

MaxItems == 2

\* An item of a block: a file entry with its path, or a block with its name
\* and its own items.
FileItem(v) == [kind |-> "file", value |-> v, items |-> <<>>]
BlockItem(n, q) == [kind |-> "block", value |-> n, items |-> q]

ShapePathAb == <<"a", "b">>
ShapePathQuoted == <<"\"", "a", " ", "b", "\"">>

\* What the root block is filled from: the two kinds of file entry; a sub-block
\* with one entry, with two, with none; a sub-block holding a sub-block; and a
\* block without a name.
ShapeItems ==
    { FileItem(ShapePathAb),
      FileItem(ShapePathQuoted),
      BlockItem(<<"n">>, << FileItem(ShapePathAb) >>),
      BlockItem(<<"n">>, << FileItem(ShapePathQuoted), FileItem(ShapePathAb) >>),
      BlockItem(<<"n">>, <<>>),
      BlockItem(<<"n">>, << BlockItem(<<"m">>, << FileItem(ShapePathAb) >>) >>),
      BlockItem(<<"n">>, << FileItem(ShapePathAb),
                            BlockItem(<<"m">>, << FileItem(ShapePathAb) >>) >>),
      BlockItem(<<>>, << FileItem(ShapePathAb) >>) }

ShapeLabels(dialect) ==
    IF dialect = "music"
    THEN { <<"music">>, <<"\"", "music", "\"">>, <<"Music">> }
    ELSE { <<"resources">>, <<"Resources">>, <<"RESOURCES">>,
           <<"\"", "resources", "\"">>, <<"\"", "Resources", "\"">>,
           <<"\"", "RESOURCES", "\"">>, <<"music">> }

\* How the braces of the root block are written: both there, the closing one
\* missing, one closing brace too many, the opening one missing.
ShapeDefects == {"none", "noclose", "extraclose", "noopen"}

ShapeDocs(dialect) ==
    [label : ShapeLabels(dialect), items : SeqsUpTo(ShapeItems, MaxItems),
     defect : ShapeDefects]

NoShapeDoc == [label |-> <<>>, items |-> <<>>, defect |-> "none"]

RECURSIVE RenderItems(_, _)
\* The text of the items of a block: `file <path>` in a music script,
\* `<path> file` in a reslist, `<name> { <items> }` for a block.
RenderItems(dialect, items) ==
    IF items = <<>> THEN <<>>
    ELSE LET it == Head(items)
             one == IF it.kind = "file"
                    THEN IF dialect = "music"
                         THEN <<"\t", "file", " ">> \o it.value \o <<" ">>
                         ELSE <<"\t">> \o it.value \o <<"\t", "file", " ">>
                    ELSE it.value \o <<" ", "{", " ">>
                           \o RenderItems(dialect, it.items) \o <<"}", " ">>
         IN  one \o RenderItems(dialect, Tail(items))

\* contents: the text of the file.
RenderDoc(dialect, doc) ==
    doc.label \o <<" ">>
      \o (IF doc.defect = "noopen" THEN <<>> ELSE <<"{", " ">>)
      \o RenderItems(dialect, doc.items)
      \o (IF doc.defect = "noclose" THEN <<>> ELSE <<"}">>)
      \o (IF doc.defect = "extraclose" THEN <<" ", "}">> ELSE <<>>)
      \o <<" ">>

\* Lines 148-156 of music_script_builder.rs: the contents are matched against
\* FILE_RE; no match is the format error.
MusicFormatCheck ==
    /\ shape_pc = "open"
    /\ shape_dialect = "music"
    /\ shape_result' = IF MusicFileReMatches(shape_text) THEN "match" ELSE "format"
    /\ shape_pc' = "done"
    /\ UNCHANGED <<shape_dialect, shape_doc, shape_text>>
    /\ UNCHANGED otherThanShape

\* Lines 135-143 of reslist_builder.rs: the same for the reslist.
ReslistFormatCheck ==
    /\ shape_pc = "open"
    /\ shape_dialect = "reslist"
    /\ shape_result' = IF ReslistFileReMatches(shape_text) THEN "match" ELSE "format"
    /\ shape_pc' = "done"
    /\ UNCHANGED <<shape_dialect, shape_doc, shape_text>>
    /\ UNCHANGED otherThanShape

ShapeInit ==
    /\ shape_pc = "open"
    /\ shape_dialect \in {"music", "reslist"}
    /\ shape_doc \in ShapeDocs(shape_dialect)
    /\ shape_text = RenderDoc(shape_dialect, shape_doc)
    /\ shape_result = "none"

ShapeIdle ==
    /\ shape_pc = "idle"
    /\ shape_dialect = "music"
    /\ shape_doc = NoShapeDoc
    /\ shape_text = <<>>
    /\ shape_result = "none"

ShapeNext == MusicFormatCheck \/ ReslistFormatCheck

-----------------------------------------------------------------------------
(* argument_handler.rs: check_arguments.                                   *)

otherThanArg == <<mapVars, fsVars, cacheVars, orchVars, resVars, genVars, musVars,
                  shapeVars, swVars, runVars>>

ArgRunning == [kind |-> "running", type |-> ""]
ArgOk      == [kind |-> "ok", type |-> ""]
ArgErr(type) == [kind |-> "err", type |-> type]

\* Path::is_file
IsFile(files, f) == f \in files

\* PathBuf::push of a relative component
Push(p, name) == p \o <<"/">> \o name

\* PathBuf::set_extension: the extension of the file name is replaced, or the
\* new one is added when the name has none.
SetExtension(p, ext) ==
    LET name == FileName(p)
        dot  == LastIndex(name, {"."})
        stem == IF dot <= 1 THEN p ELSE SubSeq(p, 1, Len(p) - (Len(name) - dot + 1))
    IN  stem \o <<".">> \o ext

\* Path::file_name: None (the empty sequence) when the path ends in "..".
FileNameOpt(p) == IF FileName(p) = <<".", ".">> THEN <<>> ELSE FileName(p)

\* Mutant of CheckRootDir: the release root is checked in fullcheck mode too.
CheckRootDirAlways(files, dirs, a, map_name) ==
    LET mapsdir  == Push(a.rootdir, <<"maps">>)
        map_path == SetExtension(Push(mapsdir, map_name), <<"bsp">>)
    IN  IF ~IsDir(dirs, a.rootdir)
        THEN IF IsFile(files, a.rootdir) THEN ArgErr("RootIsFile")
             ELSE ArgErr("RootNotDir")
        ELSE IF FileNameOpt(a.rootdir) = <<>> THEN ArgErr("RootNoEnding")
        ELSE IF FileNameOpt(a.rootdir) # <<"gesource">> THEN ArgErr("RootNotGesource")
        ELSE IF ~IsDir(dirs, mapsdir) THEN ArgErr("NoMapsDir")
        ELSE IF ~IsFile(files, map_path) THEN ArgErr("NoBsp")
        ELSE ArgOk

\* Lines 274-335: the checks of the release root, skipped in fullcheck mode.
CheckRootDir(files, dirs, a, map_name) ==
    LET mapsdir  == Push(a.rootdir, <<"maps">>)
        map_path == SetExtension(Push(mapsdir, map_name), <<"bsp">>)
    IN  IF a.fullcheck THEN ArgOk
        ELSE IF ~IsDir(dirs, a.rootdir)
        THEN IF IsFile(files, a.rootdir) THEN ArgErr("RootIsFile")
             ELSE ArgErr("RootNotDir")
        ELSE IF FileNameOpt(a.rootdir) = <<>> THEN ArgErr("RootNoEnding")
        ELSE IF FileNameOpt(a.rootdir) # <<"gesource">> THEN ArgErr("RootNotGesource")
        ELSE IF ~IsDir(dirs, mapsdir) THEN ArgErr("NoMapsDir")
        ELSE IF ~IsFile(files, map_path) THEN ArgErr("NoBsp")
        ELSE ArgOk

\* Lines 347-393: the install directory.  Outside fullcheck mode a missing one
\* is a warning; one that exists has to hold goldeneye.fgd in either mode.
CheckGesDir(files, dirs, a) ==
    LET ges_file == SetExtension(Push(a.gesdir, <<"goldeneye">>), <<"fgd">>)
    IN  IF ~IsDir(dirs, a.gesdir)
        THEN IF ~a.fullcheck THEN ArgOk
             ELSE IF IsFile(files, a.gesdir) THEN ArgErr("GesdirIsFile")
             ELSE ArgErr("GesdirNotDir")
        ELSE IF ~IsFile(files, ges_file) THEN ArgErr("NotGesInstall")
        ELSE ArgOk

ArgsCheckRoot ==
    /\ arg_pc = "root"
    /\ LET r == CheckRootDir(fs_files, fs_dirs, arg_args, arg_map_name) IN
       IF r.kind = "err"
       THEN arg_result' = r /\ arg_pc' = "done"
       ELSE arg_pc' = "gesdir" /\ UNCHANGED arg_result
    /\ UNCHANGED <<arg_args, arg_map_name>>
    /\ UNCHANGED otherThanArg

ArgsCheckGesDir ==
    /\ arg_pc = "gesdir"
    /\ LET r == CheckGesDir(fs_files, fs_dirs, arg_args) IN
       IF r.kind = "err"
       THEN arg_result' = r /\ arg_pc' = "done"
       ELSE arg_pc' = "ranges" /\ UNCHANGED arg_result
    /\ UNCHANGED <<arg_args, arg_map_name>>
    /\ UNCHANGED otherThanArg

\* Lines 395-418: the player range and resintensity are warnings only.
ArgsFinish ==
    /\ arg_pc = "ranges"
    /\ arg_result' = ArgOk
    /\ arg_pc' = "done"
    /\ UNCHANGED <<arg_args, arg_map_name>>
    /\ UNCHANGED otherThanArg

\* The directories and files of the model: a work directory w with a release
\* root, a file and a directory named in another case, and an install i.
ArgRelease == <<"w", "/", "gesource">>
ArgInstall == <<"i", "/", "gesource">>

ArgRootDirs ==
    { ArgRelease, <<"w">>, <<"w", "/", "GESource">>, <<"w", "/", "f">>,
      <<"w", "/", "none">>, <<"w", "/", "gesource", "/", ".", ".">>, ArgInstall }

ArgGesDirs == { ArgInstall, ArgRelease, <<"w", "/", "f">>, <<"w", "/", "none">> }

ArgDirs0 ==
    { <<"w">>, ArgRelease, <<"w", "/", "GESource">>,
      <<"w", "/", "gesource", "/", ".", ".">>, <<"i">>, ArgInstall }

\* The worlds: a complete release and install; a release without its maps
\* directory; a release without the map; an install without goldeneye.fgd; an
\* install where goldeneye.fgd is a directory.
ArgWorlds ==
    LET bsp == <<"w", "/", "gesource", "/", "maps", "/", "m", ".", "bsp">>
        fgd == <<"i", "/", "gesource", "/", "goldeneye", ".", "fgd">>
        f   == <<"w", "/", "f">>
        maps == Push(ArgRelease, <<"maps">>)
        imaps == Push(ArgInstall, <<"maps">>)
    IN  { [files |-> {bsp, fgd, f}, dirs |-> ArgDirs0 \cup {maps}],
          [files |-> {fgd, f},      dirs |-> ArgDirs0],
          [files |-> {fgd, f},      dirs |-> ArgDirs0 \cup {maps}],
          [files |-> {bsp, f},      dirs |-> ArgDirs0 \cup {maps}],
          [files |-> {bsp, f},      dirs |-> ArgDirs0 \cup {maps, fgd}],
          [files |-> {fgd, f, Push(imaps, <<"m", ".", "bsp">>)},
           dirs |-> ArgDirs0 \cup {imaps}] }

ArgInit ==
    /\ \E w \in ArgWorlds : fs_files = w.files /\ fs_dirs = w.dirs
    /\ arg_pc = "root"
    /\ arg_args \in [fullcheck : BOOLEAN, rootdir : ArgRootDirs, gesdir : ArgGesDirs]
    /\ arg_map_name \in { <<"m">>, <<"m", ".", "v">>, <<"invalid">> }
    /\ arg_result = ArgRunning

ArgIdle ==
    /\ arg_pc = "idle"
    /\ arg_args = [fullcheck |-> FALSE, rootdir |-> <<>>, gesdir |-> <<>>]
    /\ arg_map_name = <<>>
    /\ arg_result = ArgRunning

ArgNext == ArgsCheckRoot \/ ArgsCheckGesDir \/ ArgsFinish

-----------------------------------------------------------------------------
(* shared.rs: check_all_files_in_dir_with_func, and the three fullcheck_*  *)
(* functions that call it.                                                 *)

otherThanSw == <<mapVars, fsVars, cacheVars, orchVars, resVars, genVars, musVars,
                 shapeVars, argVars, runVars>>

SweepGesdir == <<"i", "/", "gesource">>

\* The directory, the extension and the check function each fullcheck_*
\* function hands to check_all_files_in_dir_with_func.
fullcheck_map_script_files ==
    [dir        |-> Push(Push(SweepGesdir, <<"scripts">>), <<"maps">>),
     extension  |-> <<"t", "x", "t">>,
     check_func |-> "check_map_script_file"]

fullcheck_music_script_files ==
    [dir        |-> Push(Push(SweepGesdir, <<"scripts">>), <<"music">>),
     extension  |-> <<"t", "x", "t">>,
     check_func |-> "check_music_script_file"]

fullcheck_reslist_files ==
    [dir        |-> Push(SweepGesdir, <<"maps">>),
     extension  |-> <<"r", "e", "s">>,
     check_func |-> "check_reslist"]

FullcheckOf(dialect) ==
    CASE dialect = "map"     -> fullcheck_map_script_files
      [] dialect = "music"   -> fullcheck_music_script_files
      [] dialect = "reslist" -> fullcheck_reslist_files

\* What a check function answers for a file, by what the file holds: Ok for a
\* valid script of its own dialect, an error for anything else.
CheckFuncAccepts(check_func, content) ==
    \/ check_func = "check_map_script_file"   /\ content = "map"
    \/ check_func = "check_music_script_file" /\ content = "music"
    \/ check_func = "check_reslist"           /\ content = "reslist"

SweepRunning == [kind |-> "running", type |-> "", file |-> <<>>]
SweepOk      == [kind |-> "ok", type |-> "", file |-> <<>>]
\* The three errors: the directory is missing; the walk failed; a file failed
\* its check, and the message begins "While proccessing <file>".
SweepErr(type, file) == [kind |-> "err", type |-> type, file |-> file]

\* The parent directory of an entry.
Parent(p) == SubSeq(p, 1, LastIndex(p, {"/", "\\"}) - 1)

\* What WalkDir::new(dir) yields: dir itself and everything below it.
WalkEntries(files, dirs, dir) ==
    {dir} \cup FilesBelow(dirs, dir) \cup FilesBelow(files, dir)

\* Mutant of SweepEntry: a failed check does not end the sweep.
SweepEntryNoStop ==
    /\ sw_pc = "walk"
    /\ LET w == FullcheckOf(sw_dialect) IN
       \E entry \in WalkEntries(fs_files, fs_dirs, w.dir) \ sw_visited :
          /\ entry = w.dir \/ Parent(entry) \in sw_visited
          /\ sw_visited' = sw_visited \cup {entry}
          /\ IF \/ ~IsFile(fs_files, entry)
                \/ ToLowercase(get_file_extension(entry)) # w.extension
             THEN UNCHANGED <<sw_checked, sw_result, sw_pc>>
             ELSE /\ sw_checked' = Append(sw_checked, <<w.check_func, entry>>)
                  /\ UNCHANGED <<sw_result, sw_pc>>
    /\ UNCHANGED <<sw_dialect, sw_content>>
    /\ UNCHANGED otherThanSw

\* Lines 46-60 (and the same in the other two modules): the directory has to
\* exist.
SweepStart ==
    /\ sw_pc = "start"
    /\ IF ~IsDir(fs_dirs, FullcheckOf(sw_dialect).dir)
       THEN sw_result' = SweepErr("nodir", <<>>) /\ sw_pc' = "done"
       ELSE sw_pc' = "walk" /\ UNCHANGED sw_result
    /\ UNCHANGED <<sw_dialect, sw_content, sw_visited, sw_checked>>
    /\ UNCHANGED otherThanSw

\* Lines 127-161: one turn of the loop over WalkDir::new(&dir).  A directory
\* is yielded before what it holds; the order is otherwise the file system's.
SweepEntry ==
    /\ sw_pc = "walk"
    /\ LET w == FullcheckOf(sw_dialect) IN
       \E entry \in WalkEntries(fs_files, fs_dirs, w.dir) \ sw_visited :
          /\ entry = w.dir \/ Parent(entry) \in sw_visited
          /\ sw_visited' = sw_visited \cup {entry}
          /\ IF \/ ~IsFile(fs_files, entry)
                \/ ToLowercase(get_file_extension(entry)) # w.extension
             THEN UNCHANGED <<sw_checked, sw_result, sw_pc>>
             ELSE /\ sw_checked' = Append(sw_checked, <<w.check_func, entry>>)
                  /\ IF CheckFuncAccepts(w.check_func, sw_content[entry])
                     THEN UNCHANGED <<sw_result, sw_pc>>
                     ELSE /\ sw_result' = SweepErr("file", entry)
                          /\ sw_pc' = "done"
    /\ UNCHANGED <<sw_dialect, sw_content>>
    /\ UNCHANGED otherThanSw

\* Line 129: `entry?`, the walk itself reports an error.
SweepWalkError ==
    /\ sw_pc = "walk"
    /\ \E entry \in WalkEntries(fs_files, fs_dirs, FullcheckOf(sw_dialect).dir)
                    \ sw_visited :
          /\ entry = FullcheckOf(sw_dialect).dir \/ Parent(entry) \in sw_visited
          /\ sw_result' = SweepErr("walk", <<>>)
    /\ sw_pc' = "done"
    /\ UNCHANGED <<sw_dialect, sw_content, sw_visited, sw_checked>>
    /\ UNCHANGED otherThanSw

\* Lines 163-166: the walk is over.
SweepFinish ==
    /\ sw_pc = "walk"
    /\ sw_visited = WalkEntries(fs_files, fs_dirs, FullcheckOf(sw_dialect).dir)
    /\ sw_result' = SweepOk
    /\ sw_pc' = "done"
    /\ UNCHANGED <<sw_dialect, sw_content, sw_visited, sw_checked>>
    /\ UNCHANGED otherThanSw

\* The install of the model, for a dialect with directory d and extension x:
\* two scripts (one in a sub-directory, its extension in capitals), a file with
\* another extension, a directory named like a script, and a script outside d.
SweepFiles(d, x) ==
    [a |-> Push(d, <<"a", ".">> \o x),
     b |-> Push(Push(d, <<"s">>), <<"b", ".", "T", "X", "T">>),
     r |-> Push(Push(d, <<"s">>), <<"b", ".", "R", "E", "S">>),
     c |-> Push(d, <<"c", ".", "b", "s", "p">>),
     x |-> Push(SweepGesdir, <<"x", ".">> \o x)]

SweepDirs(d) ==
    { <<"i">>, SweepGesdir, Push(SweepGesdir, <<"scripts">>), d,
      Push(d, <<"s">>), Push(d, <<"e", ".", "t", "x", "t">>),
      Push(d, <<"e", ".", "r", "e", "s">>) }

SweepContents == {"map", "music", "reslist", "junk"}

SweepInit ==
    /\ sw_dialect \in {"map", "music", "reslist"}
    /\ LET w == FullcheckOf(sw_dialect)
           f == SweepFiles(w.dir, w.extension)
           b == IF sw_dialect = "reslist" THEN f.r ELSE f.b
       IN  \/ /\ fs_dirs = SweepDirs(w.dir)
              /\ \E some \in SUBSET {f.a, b} : fs_files = some \cup {f.c, f.x}
              /\ \E ca, cb \in {sw_dialect, "junk"} :
                    sw_content = (f.a :> ca) @@ (b :> cb) @@ (f.c :> "junk")
                                 @@ (f.x :> "junk")
           \/ /\ fs_dirs = { <<"i">>, SweepGesdir }
              /\ fs_files = {f.x}
              /\ sw_content = (f.x :> "junk")
    /\ sw_pc = "start"
    /\ sw_visited = {}
    /\ sw_checked = <<>>
    /\ sw_result = SweepRunning

SwIdle ==
    /\ sw_pc = "idle"
    /\ sw_dialect = "map"
    /\ sw_content = <<>>
    /\ sw_visited = {}
    /\ sw_checked = <<>>
    /\ sw_result = SweepRunning

SweepNext == SweepStart \/ SweepEntry \/ SweepWalkError \/ SweepFinish

-----------------------------------------------------------------------------
(* main.rs: create_or_verify_map_script_files, a single release run, with  *)
(* the three create_or_verify_* functions it calls and what they do to the *)
(* release directory.                                                      *)

otherThanRun == <<mapVars, orchVars, resVars, genVars, musVars, shapeVars, argVars,
                  swVars>>

RunRoot == <<"w", "/", "gesource">>
RunMapName == <<"m">>

\* The directory each script goes to, and the script's path in it.
ScriptDir(d) ==
    CASE d = "map"     -> Push(Push(RunRoot, <<"scripts">>), <<"maps">>)
      [] d = "music"   -> Push(Push(RunRoot, <<"scripts">>), <<"music">>)
      [] d = "reslist" -> Push(RunRoot, <<"maps">>)

ScriptPath(d) ==
    CASE d = "map"     -> SetExtension(Push(ScriptDir(d), RunMapName), <<"t", "x", "t">>)
      [] d = "music"   -> SetExtension(Push(ScriptDir(d), <<"level_music_">> \o RunMapName),
                                       <<"t", "x", "t">>)
      [] d = "reslist" -> SetExtension(Push(ScriptDir(d), RunMapName), <<"r", "e", "s">>)

\* fs::create_dir_all: the directory and the parents it lacks.
RECURSIVE CreateDirAll(_, _)
CreateDirAll(dirs, d) ==
    IF d \in dirs \/ LastIndex(d, {"/", "\\"}) = 0 THEN dirs \cup {d}
    ELSE CreateDirAll(dirs, Parent(d)) \cup {d}

\* Mutant of CreateOrVerify: the script is written whether it is there or not.
CreateAlways(files, path) == "create"

\* `if !path.is_file() { create } else { check }`
CreateOrVerify(files, path) ==
    IF ~IsFile(files, path) THEN "create" ELSE "check"

RunActive == run_main \notin {"panicked", "exited"}

\* thread::spawn of the map script task.
RunSpawnMap ==
    /\ run_main = "start"
    /\ run_task' = [run_task EXCEPT !["map"] = "ready"]
    /\ run_main' = PcAfter("single", run_main)
    /\ UNCHANGED <<run_result, run_exists0, run_written, run_checked, run_reslist>>
    /\ UNCHANGED <<fsVars, cacheVars, otherThanRun>>

\* The main thread calls create_or_verify_music_script_file, then
\* create_or_verify_reslist.
RunMainCall(d) ==
    /\ d \in {"music", "reslist"}
    /\ run_main = d
    /\ run_task' = [run_task EXCEPT ![d] = "ready"]
    /\ run_main' = PcAfter("single", run_main)
    /\ UNCHANGED <<run_result, run_exists0, run_written, run_checked, run_reslist>>
    /\ UNCHANGED <<fsVars, cacheVars, otherThanRun>>

\* The head of create_or_verify_*: the script directory is made if it is
\* missing (the map and the music script), then the script's path is tested.
RunEnter(d) ==
    /\ RunActive
    /\ run_task[d] = "ready"
    /\ fs_dirs' = IF d = "reslist" THEN fs_dirs ELSE CreateDirAll(fs_dirs, ScriptDir(d))
    /\ run_task' = [run_task EXCEPT ![d] = CreateOrVerify(fs_files, ScriptPath(d))]
    /\ UNCHANGED <<run_main, run_result, run_exists0, run_written, run_checked,
                   run_reslist>>
    /\ UNCHANGED <<fs_files, cacheVars, otherThanRun>>

\* What ends a call: the result is kept; a call of the main thread returns to
\* main, a panic there ends the process.
RunReturn(d, outcome) ==
    /\ run_task' = [run_task EXCEPT ![d] = "done"]
    /\ run_result' = [run_result EXCEPT ![d] = outcome]
    /\ run_main' = IF d = "map" THEN run_main
                   ELSE IF outcome = "panic" THEN "panicked"
                   ELSE PcAfter("single", run_main)

\* fs::create_dir_all fails.
RunMkdirError(d) ==
    /\ RunActive
    /\ d \in {"map", "music"}
    /\ run_task[d] = "ready"
    /\ ~IsDir(fs_dirs, ScriptDir(d))
    /\ RunReturn(d, "err")
    /\ UNCHANGED <<run_exists0, run_written, run_checked, run_reslist>>
    /\ UNCHANGED <<fsVars, cacheVars, otherThanRun>>

\* create_map_script_file and create_music_script_file write the script.
RunCreateScript(d) ==
    /\ RunActive
    /\ d \in {"map", "music"}
    /\ run_task[d] = "create"
    /\ fs_files' = fs_files \cup {ScriptPath(d)}
    /\ run_written' = run_written \cup {ScriptPath(d)}
    /\ RunReturn(d, "ok")
    /\ UNCHANGED <<run_exists0, run_checked, run_reslist>>
    /\ UNCHANGED <<fs_dirs, cacheVars, otherThanRun>>

\* create_reslist: the snapshot of the release root is fetched; with an empty
\* one nothing is written and the call is Ok (lines 84-88).
RunCreateReslist ==
    LET c    == CacheOf("reslist")
        k    == generate_directory_tree_key(<<RunRoot>>)
        list == IF MustCompute(c)
                THEN get_files_in_directory(fs_files, fs_dirs, k.dirs[1], k.target,
                                            k.excluded)
                ELSE directory_cache[c][1]
    IN
    /\ RunActive
    /\ run_task["reslist"] = "create"
    /\ directory_cache' = [directory_cache EXCEPT ![c] = Some(list)]
    /\ has_init' = [has_init EXCEPT ![c] = TRUE]
    /\ walks' = IF MustCompute(c) THEN [walks EXCEPT ![c] = @ + 1] ELSE walks
    /\ snap_key' = IF MustCompute(c) THEN [snap_key EXCEPT ![c] = k] ELSE snap_key
    /\ snap_first' = IF MustCompute(c) THEN [snap_first EXCEPT ![c] = list] ELSE snap_first
    /\ IF list = {}
       THEN UNCHANGED <<fs_files, run_written, run_reslist>>
       ELSE /\ fs_files' = fs_files \cup {ScriptPath("reslist")}
            /\ run_written' = run_written \cup {ScriptPath("reslist")}
            /\ run_reslist' = [written |-> TRUE, entries |-> list]
    /\ RunReturn("reslist", "ok")
    /\ UNCHANGED <<run_exists0, run_checked>>
    /\ UNCHANGED <<fs_dirs, mutex, th, failed_walks, otherThanRun>>

\* File::create or write_all fails in a create_* function (for the reslist, so
\* may the walk before it).
RunCreateError(d) ==
    /\ RunActive
    /\ run_task[d] = "create"
    /\ RunReturn(d, "err")
    /\ UNCHANGED <<run_exists0, run_written, run_checked, run_reslist>>
    /\ UNCHANGED <<fsVars, cacheVars, otherThanRun>>

\* check_map_script_file, check_music_script_file or check_reslist on the
\* script that is there: Ok for a valid one.  The music and the reslist
\* validator fetch the snapshot of their own cache; the music validator may
\* panic on a declared path.
RunCheck(d) ==
    /\ RunActive
    /\ run_task[d] = "check"
    /\ run_checked' = run_checked \cup {ScriptPath(d)}
    /\ \E outcome \in (IF run_exists0[d] = "valid" THEN {"ok"}
                       ELSE IF d = "music" THEN {"err", "panic"} ELSE {"err"}) :
          RunReturn(d, outcome)
    /\ IF d = "map" THEN UNCHANGED <<has_init, directory_cache, walks>>
       ELSE LET c == CacheOf(IF d = "music" THEN "mp3" ELSE "reslist")
                k == IF d = "music"
                     THEN generate_mp3_directory_tree_key(fs_dirs,
                              <<Push(Push(RunRoot, <<"sound">>), <<"music">>),
                                Push(Push(RunRoot, <<"sound">>), <<"music">>)>>)
                     ELSE generate_directory_tree_key(<<RunRoot>>)
                list == get_files_in_directory(fs_files, fs_dirs, k.dirs[1], k.target,
                                               k.excluded)
            IN  /\ has_init' = [has_init EXCEPT ![c] = TRUE]
                /\ directory_cache' = IF MustCompute(c)
                                      THEN [directory_cache EXCEPT ![c] = Some(list)]
                                      ELSE directory_cache
                /\ walks' = IF MustCompute(c) THEN [walks EXCEPT ![c] = @ + 1] ELSE walks
    /\ UNCHANGED <<run_exists0, run_written, run_reslist>>
    /\ UNCHANGED <<fsVars, mutex, th, failed_walks, snap_key, snap_first, otherThanRun>>

\* map_script_handle.join()
RunJoin ==
    /\ run_main = "join_map"
    /\ run_task["map"] = "done"
    /\ run_main' = PcAfter("single", run_main)
    /\ UNCHANGED <<run_task, run_result, run_exists0, run_written, run_checked,
                   run_reslist>>
    /\ UNCHANGED <<fsVars, cacheVars, otherThanRun>>

\* pause_then_exit
RunExit ==
    /\ run_main = "exit"
    /\ run_main' = PcAfter("single", run_main)
    /\ UNCHANGED <<run_task, run_result, run_exists0, run_written, run_checked,
                   run_reslist>>
    /\ UNCHANGED <<fsVars, cacheVars, otherThanRun>>

NoReslist == [written |-> FALSE, entries |-> {}]

\* The release at the start of a run: the map, the scripts that are already
\* there, and, in some releases, a music file.
RunInit ==
    /\ run_exists0 \in [Dialects -> {"absent", "valid", "invalid"}]
    /\ \E asset \in SUBSET { Push(Push(Push(RunRoot, <<"sound">>), <<"music">>),
                                  <<"x", ".", "m", "p", "3">>) } :
          /\ fs_files = { SetExtension(Push(ScriptDir("reslist"), RunMapName),
                                       <<"b", "s", "p">>) }
                        \cup asset
                        \cup { ScriptPath(d) : d \in { e \in Dialects :
                                                        run_exists0[e] # "absent" } }
          /\ fs_dirs = { <<"w">>, RunRoot, ScriptDir("reslist") }
                       \cup UNION { CreateDirAll({}, Parent(f)) : f \in asset }
                       \cup UNION { CreateDirAll({}, ScriptDir(d)) :
                                      d \in { e \in Dialects : run_exists0[e] # "absent" } }
    /\ run_main = "start"
    /\ run_task = [d \in Dialects |-> "notstarted"]
    /\ run_result = [d \in Dialects |-> "none"]
    /\ run_written = {}
    /\ run_checked = {}
    /\ run_reslist = NoReslist

RunIdle ==
    /\ run_main = "idle"
    /\ run_task = [d \in Dialects |-> "notstarted"]
    /\ run_result = [d \in Dialects |-> "none"]
    /\ run_exists0 = [d \in Dialects |-> "absent"]
    /\ run_written = {}
    /\ run_checked = {}
    /\ run_reslist = NoReslist

RunNext ==
    \/ RunSpawnMap
    \/ \E d \in {"music", "reslist"} : RunMainCall(d)
    \/ \E d \in Dialects : RunEnter(d)
    \/ \E d \in {"map", "music"} : RunMkdirError(d)
    \/ \E d \in {"map", "music"} : RunCreateScript(d)
    \/ RunCreateReslist
    \/ \E d \in Dialects : RunCreateError(d)
    \/ \E d \in Dialects : RunCheck(d)
    \/ RunJoin
    \/ RunExit

-----------------------------------------------------------------------------
(* The specifications.                                                     *)

InitMap == MapInit /\ FsIdle /\ CacheIdle /\ OrchIdle /\ ResIdle /\ GenIdle /\ MusIdle /\ ShapeIdle /\ ArgIdle /\ SwIdle /\ RunIdle

SpecMap == InitMap /\ [][MapNext]_vars

InitCache == CacheInit /\ MapIdle /\ OrchIdle /\ ResIdle /\ GenIdle /\ MusIdle /\ ShapeIdle /\ ArgIdle /\ SwIdle /\ RunIdle

SpecCache == InitCache /\ [][CacheNext]_vars

InitOrch == OrchInit /\ MapIdle /\ FsIdle /\ CacheIdle /\ ResIdle /\ GenIdle /\ MusIdle /\ ShapeIdle /\ ArgIdle /\ SwIdle /\ RunIdle

SpecOrch == InitOrch /\ [][OrchNext]_vars

InitScan == ScanInit /\ MapIdle /\ OrchIdle /\ ResIdle /\ GenIdle /\ MusIdle /\ ShapeIdle /\ ArgIdle /\ SwIdle /\ RunIdle

SpecScan == InitScan /\ [][ScanNext]_vars

InitRes == ResInit /\ CacheIdle /\ MapIdle /\ OrchIdle /\ GenIdle /\ MusIdle /\ ShapeIdle /\ ArgIdle /\ SwIdle /\ RunIdle

SpecRes == InitRes /\ [][ResNext]_vars

InitGen == GenInit /\ FsIdle /\ CacheIdle /\ OrchIdle /\ ResIdle /\ MusIdle /\ ShapeIdle /\ ArgIdle /\ SwIdle /\ RunIdle

SpecGen == InitGen /\ [][GenNext]_vars

InitShape == ShapeInit /\ MapIdle /\ FsIdle /\ CacheIdle /\ OrchIdle /\ ResIdle /\ GenIdle /\ MusIdle /\ ArgIdle /\ SwIdle /\ RunIdle

SpecShape == InitShape /\ [][ShapeNext]_vars

InitArg == ArgInit /\ MapIdle /\ CacheIdle /\ OrchIdle /\ ResIdle /\ GenIdle /\ MusIdle /\ ShapeIdle /\ SwIdle /\ RunIdle

SpecArg == InitArg /\ [][ArgNext]_vars

InitSweep == SweepInit /\ MapIdle /\ CacheIdle /\ OrchIdle /\ ResIdle /\ GenIdle /\ MusIdle /\ ShapeIdle /\ ArgIdle /\ RunIdle

SpecSweep == InitSweep /\ [][SweepNext]_vars

InitRun == RunInit /\ CacheIdle /\ MapIdle /\ OrchIdle /\ ResIdle /\ GenIdle /\ MusIdle /\ ShapeIdle /\ ArgIdle /\ SwIdle

SpecRun == InitRun /\ [][RunNext]_vars

InitMus == MusInit /\ CacheIdle /\ MapIdle /\ OrchIdle /\ ResIdle /\ GenIdle /\ ShapeIdle /\ ArgIdle /\ SwIdle /\ RunIdle

SpecMus == InitMus /\ [][MusNext]_vars

-----------------------------------------------------------------------------
(* Claims about the directory cache.                                       *)

OnCache(t, c) == CacheOf(th[t].site) = c

\* C1 (as claimed): for each cache the walk is performed exactly once in total,
\* however many threads request it.
C1_WalkedOnceInTotal ==
    \A c \in Sites : walks[c] <= 1

\* C1 (amended): requesters of one cache never walk at the same time; a walk is
\* repeated only after a walk that failed (walks = failed walks, plus one when a
\* walk is under way or has succeeded); a requester that returns without
\* walking returns the snapshot of the one walk that succeeded.
C1_SingleFlight ==
    \A c \in Sites :
        /\ Cardinality({ t \in Threads : OnCache(t, c) /\ th[t].pc \in {"walk", "cached"} }) <= 1
        /\ walks[c] = failed_walks[c]
                        + (IF has_init[c] \/ \E t \in Threads : OnCache(t, c) /\ th[t].pc = "walk"
                           THEN 1 ELSE 0)
        /\ \A t \in Threads :
              (OnCache(t, c) /\ th[t].ret.kind = "ok" /\ ~th[t].ret.walked) =>
                  /\ has_init[c]
                  /\ th[t].ret.seen = snap_first[c]

\* Two requests for one cache in flight: one has walked a directory, the other waits.
C1_Witness ==
    \E t1, t2 \in Threads :
        /\ t1 # t2
        /\ th[t1].site = th[t2].site
        /\ th[t1].pc = "walk" /\ th[t1].idx > 1
        /\ th[t2].pc = "lock"

\* C2: once the flag of a cache is set, its list is the one stored when the flag
\* was set, nobody walks for it again, and every call that has returned Ok holds
\* exactly that list.
C2_SnapshotNeverModified ==
    \A c \in Sites :
        has_init[c] =>
            /\ directory_cache[c] = Some(snap_first[c])
            /\ \A t \in Threads : OnCache(t, c) => th[t].pc # "walk"
            /\ \A t \in Threads :
                  (OnCache(t, c) /\ th[t].ret.kind = "ok") => th[t].ret.seen = snap_first[c]

\* A later call with the same arguments has returned the stored list although a
\* walk would now find other files.
C2_Witness ==
    \E t \in Threads :
        /\ th[t].pc = "idle"
        /\ th[t].ret.kind = "ok" /\ ~th[t].ret.walked
        /\ th[t].site = "reslist"
        /\ th[t].key = snap_key["reslist"]
        /\ th[t].ret.seen # get_files_in_directory(fs_files, fs_dirs, th[t].key.dirs[1],
                                                   th[t].key.target, th[t].key.excluded)

\* C3 (as claimed): a call that returns Ok returns the snapshot computed for its
\* own roots and filter.
C3_KeyedByArguments ==
    \A t \in Threads :
        th[t].ret.kind = "ok" => snap_key[CacheOf(th[t].site)] = th[t].key

\* C3 (amended): the cache is keyed by call site.  A call that returns Ok returns
\* the snapshot of the first successful walk through its call site's cache: that
\* walk used the call site's filter, and its roots are the caller's own only if
\* the caller is the one that walked.
C3_KeyedByCallSite ==
    \A t \in Threads :
        th[t].ret.kind = "ok" =>
            LET k == snap_key[CacheOf(th[t].site)] IN
            /\ th[t].ret.seen = snap_first[CacheOf(th[t].site)]
            /\ k.target = th[t].key.target
            /\ k.excluded = th[t].key.excluded
            /\ th[t].ret.walked => k = th[t].key

\* A call got the snapshot of other roots than its own.
C3_Witness ==
    \E t \in Threads :
        /\ th[t].ret.kind = "ok"
        /\ ~th[t].ret.walked
        /\ snap_key[CacheOf(th[t].site)].dirs # th[t].key.dirs

-----------------------------------------------------------------------------
(* Claims about the orchestrator (SpecOrch). *)

RECURSIVE BitOr(_, _)
BitOr(a, b) ==
    IF a = 0 THEN b
    ELSE IF b = 0 THEN a
    ELSE (IF a % 2 = 1 \/ b % 2 = 1 THEN 1 ELSE 0) + 2 * BitOr(a \div 2, b \div 2)

Failed(d) == task_result[d] \in {"err", "panic"}

\* C4: in a single-release run the reslist step has started only if the map
\* script task and the music script task have both finished, with whatever
\* outcome.
C4_ReslistAfterMapAndMusic ==
    (orch_mode = "single" /\ task_state["reslist"] # "notstarted")
        => (task_state["map"] = "done" /\ task_state["music"] = "done")

\* C4 witness: a single-release run in which the reslist step is running after
\* the map script task failed.
C4_Witness ==
    /\ orch_mode = "single"
    /\ task_state["reslist"] = "running"
    /\ task_result["map"] = "err"
    /\ task_result["music"] = "ok"

\* C5 as stated: whenever the process has ended, in either mode, all three
\* dialect tasks have run to completion, whatever failed.
C5_AllTasksComplete ==
    exit_code # NoExit => \A d \in Dialects : task_state[d] = "done"

\* C6 as stated: at a normal exit there are three distinct one-bit flags, one
\* per dialect, such that the exit code is the bitwise OR of the flags of
\* exactly the failed tasks.
C6_BitmaskOfFailedDialects ==
    main_pc = "exited" =>
        \E flag \in [Dialects -> {1, 2, 4, 8, 16}] :
            /\ \A d, e \in Dialects : d # e => flag[d] # flag[e]
            /\ exit_code = BitOr(IF Failed("map") THEN flag["map"] ELSE 0,
                                 BitOr(IF Failed("music") THEN flag["music"] ELSE 0,
                                       IF Failed("reslist") THEN flag["reslist"] ELSE 0))

-----------------------------------------------------------------------------
(* Claims about the reslist validator (SpecRes). *)

\* The snapshot of the release root.
ReleaseSnapshot ==
    get_files_in_directory(fs_files, fs_dirs, RootR, <<>>, DISALLOWED_FILETYPES)

\* The normalized declared paths, and the three reconciliation sets.
Declared == { FixedPath(res_doc.entries[i]) : i \in 1..Len(res_doc.entries) }

DeclaredAbsent == Declared \ ReleaseSnapshot

Undeclared == ReleaseSnapshot \ Declared

DeclaredTwice ==
    { p \in Declared :
        \E i, j \in 1..Len(res_doc.entries) :
            /\ i # j
            /\ FixedPath(res_doc.entries[i]) = p
            /\ FixedPath(res_doc.entries[j]) = p }

\* A non-fullcheck check of a structurally valid reslist that got its snapshot
\* has returned.
ReconciledRun ==
    /\ res_pc = "done"
    /\ ~res_fullcheck
    /\ FILE_RE_is_match(res_doc)
    /\ res_result.type # "io"

\* C10: in non-fullcheck mode a structurally valid reslist is accepted iff no
\* declared path is absent from the release root's snapshot, no file of the
\* snapshot is undeclared and no normalized path is declared twice.
C10_AcceptedIffReconciled ==
    ReconciledRun =>
        (res_result = ResOk <=>
            (DeclaredAbsent = {} /\ Undeclared = {} /\ DeclaredTwice = {}))

\* C10 witness: a reslist declaring all three files of the snapshot, one of
\* them written with backslash and capitals, is accepted in non-fullcheck mode.
C10_Witness ==
    /\ ReconciledRun
    /\ res_result = ResOk
    /\ Len(res_doc.entries) = 3
    /\ \E i \in 1..3 : FixedPath(res_doc.entries[i]) # res_doc.entries[i]
    /\ Cardinality(ReleaseSnapshot) = 3

\* The declared paths whose extension is disallowed.
DeclaredDisallowed ==
    { p \in Declared : ToLowercase(get_string_file_extension(p)) \in DISALLOWED_FILETYPES }

\* A check of a structurally valid reslist that got its snapshot has returned.
CheckedRun ==
    /\ res_pc = "done"
    /\ FILE_RE_is_match(res_doc)
    /\ res_result.type # "io"

\* The reslist declares part of the snapshot and nothing else: every declared
\* path exists, is allowed and is declared once, and some file is undeclared.
PartialReslist ==
    /\ DeclaredAbsent = {}
    /\ DeclaredDisallowed = {}
    /\ DeclaredTwice = {}
    /\ Undeclared # {}

\* C11: a structurally valid reslist that declares only part of the snapshot
\* (each declared path existing, allowed, declared once) is accepted in
\* fullcheck mode and rejected, for the undeclared files, in non-fullcheck mode.
C11_FullcheckLeniency ==
    (CheckedRun /\ PartialReslist) =>
        IF res_fullcheck
        THEN res_result = ResOk
        ELSE res_result.kind = "err" /\ res_result.type = "undeclared"

\* C11 witness: fullcheck mode has accepted a reslist that declares two of the
\* three files of the snapshot.
C11_Witness ==
    /\ CheckedRun
    /\ res_fullcheck
    /\ res_result = ResOk
    /\ Cardinality(Declared) = 2
    /\ Cardinality(Undeclared) = 1

\* C12: when a non-fullcheck reslist, otherwise valid, leaves files of the
\* snapshot undeclared, the one error returned names every undeclared file of
\* the snapshot; and an error about undeclared files always names all of them.
C12_AllUndeclaredNamed ==
    ReconciledRun =>
        /\ PartialReslist => res_result = ResErr("undeclared", Undeclared)
        /\ res_result.type = "undeclared" => res_result.names = Undeclared

\* C12 witness: a non-fullcheck reslist declaring one of the three snapshot
\* files was rejected with an error naming the two others.
C12_Witness ==
    /\ ReconciledRun
    /\ res_result.type = "undeclared"
    /\ Cardinality(res_result.names) = 2
    /\ Cardinality(ReleaseSnapshot) = 3

\* The first entry that repeats the normalized path of an earlier entry.
FirstRepeat ==
    CHOOSE j \in 1..Len(res_doc.entries) :
        /\ \E i \in 1..(j - 1) : FixedPath(res_doc.entries[i]) = FixedPath(res_doc.entries[j])
        /\ \A k \in 1..(j - 1) :
             ~\E i \in 1..(k - 1) : FixedPath(res_doc.entries[i]) = FixedPath(res_doc.entries[k])

\* C13: in fullcheck and non-fullcheck mode alike, a structurally valid reslist
\* in which two entries normalize to the same path is rejected, and when every
\* declared file exists on disk and is allowed the error is the duplicate error
\* naming the repeated normalized path.
C13_DuplicateRejected ==
    (CheckedRun /\ DeclaredTwice # {}) =>
        /\ res_result.kind = "err"
        /\ (DeclaredAbsent = {} /\ DeclaredDisallowed = {}) =>
               res_result = ResErr("duplicate", {FixedPath(res_doc.entries[FirstRepeat])})

\* C13 witness: in fullcheck mode a file that is on disk, declared once as
\* a.txt and once as "A.TXT", was rejected as a duplicate of a.txt.
C13_Witness ==
    /\ CheckedRun
    /\ res_fullcheck
    /\ res_result = ResErr("duplicate", {<<"a", ".", "t", "x", "t">>})
    /\ <<"a", ".", "t", "x", "t">> \in ReleaseSnapshot
    /\ \E i, j \in 1..Len(res_doc.entries) :
         /\ res_doc.entries[i] # res_doc.entries[j]
         /\ FixedPath(res_doc.entries[i]) = FixedPath(res_doc.entries[j])

\* The entry's normalized path has an extension of the disallowed set, letter
\* case aside.
HasDisallowedExtension(raw) ==
    ToLowercase(get_file_extension(FixedPath(raw))) \in DISALLOWED_FILETYPES

\* The first entry with a disallowed extension.
FirstDisallowed ==
    CHOOSE d \in 1..Len(res_doc.entries) :
        /\ HasDisallowedExtension(res_doc.entries[d])
        /\ \A j \in 1..(d - 1) : ~HasDisallowedExtension(res_doc.entries[j])

\* The entries before entry d are on disk, allowed and pairwise distinct.
ValidBefore(d) ==
    /\ \A j \in 1..(d - 1) : FixedPath(res_doc.entries[j]) \in ReleaseSnapshot
    /\ \A i, j \in 1..(d - 1) :
         i # j => FixedPath(res_doc.entries[i]) # FixedPath(res_doc.entries[j])

\* Some file on disk below the release root has this normalized relative path.
OnDisk(p) == \E f \in FilesBelow(fs_files, RootR) : RelativeName(f, RootR) = p

\* C14: a structurally valid reslist with an entry whose normalized path has
\* an extension in {bsp, res, exe}, letter case aside, is rejected whether or
\* not that file is on disk, and when the entries before it are valid the error
\* is the disallowed-filetype error naming the normalized path.
C14_DisallowedExtensionRejected ==
    (CheckedRun /\ \E i \in 1..Len(res_doc.entries) : HasDisallowedExtension(res_doc.entries[i]))
        => /\ res_result.kind = "err"
           /\ ValidBefore(FirstDisallowed) =>
                  res_result =
                      ResErr("disallowed", {FixedPath(res_doc.entries[FirstDisallowed])})

\* C14 witness: the entry M.bSp, whose file is on disk as M.BSP, was rejected
\* after a valid first entry with the error naming m.bsp.
C14_Witness ==
    /\ CheckedRun
    /\ res_result = ResErr("disallowed", {<<"m", ".", "b", "s", "p">>})
    /\ OnDisk(<<"m", ".", "b", "s", "p">>)
    /\ FirstDisallowed = 2

\* Two paths differ at most in letter case and in the kind of slash.
CaseSlashEq(a, b) ==
    /\ Len(a) = Len(b)
    /\ \A i \in 1..Len(a) :
         \/ LowerChar(a[i]) = LowerChar(b[i])
         \/ (IsSep(a[i]) /\ IsSep(b[i]))

\* The path is relative, forward-slash separated and lowercase.
IsNormalForm(p) ==
    /\ \A i \in 1..Len(p) : p[i] # "\\" /\ LowerChar(p[i]) = p[i]
    /\ p # <<>> => p[1] # "/"

\* The on-disk files of the release root that the reslist may declare, each as
\* it is spelled on disk below the root.
DeclarableOnDisk ==
    { SubSeq(f, Len(RootR) + 2, Len(f)) :
        f \in { g \in FilesBelow(fs_files, RootR) :
                  ToLowercase(get_file_extension(g)) \notin DISALLOWED_FILETYPES } }

C16_ReslistRoundTrip ==
    (res_created /\ res_pc = "done" /\ res_result.type # "io") => res_result = ResOk

-----------------------------------------------------------------------------
(* Claims about the music script builder (SpecMus). *)

\* The union of the mp3 snapshots of the install's and of the release's sound
\* directory.
Mp3Union ==
    get_files_in_directory(fs_files, fs_dirs, SoundG, Mp3, {})
        \cup get_files_in_directory(fs_files, fs_dirs, SoundR, Mp3, {})

\* The value, normalized, ends in mp3.
EndsInMp3(raw) ==
    LET p == MusicFixedPath(raw) IN
    Len(p) >= 3 /\ SubSeq(p, Len(p) - 2, Len(p)) = Mp3

\* A check of a structurally valid music script has returned, not for an I/O
\* failure.
MusCheckedRun ==
    /\ mus_pc = "done"
    /\ MUSIC_FILE_RE_is_match(mus_doc)
    /\ mus_result.type # "io"

\* The first file value whose normalized path is not in the union.
FirstMissingValue ==
    CHOOSE i \in 1..Len(mus_doc.entries) :
        /\ MusicFixedPath(mus_doc.entries[i]) \notin Mp3Union
        /\ \A j \in 1..(i - 1) : MusicFixedPath(mus_doc.entries[j]) \in Mp3Union

\* C17 as stated: whatever the release's and the install's sound directory
\* hold, the music script written by create_music_script_file is accepted by
\* check_music_script_file run afterwards with the same arguments.
C17_MusicRoundTrip ==
    (mus_created /\ mus_pc = "done" /\ mus_result.type # "io") => mus_result = MusOk

\* C19 as stated: without a sound directory in the install, a structurally
\* valid music script with a file value that does not end in mp3 is still
\* rejected.
C19_ExtensionCheckedWithoutInstall ==
    (/\ MusCheckedRun
     /\ ~IsDir(fs_dirs, SoundG)
     /\ \E i \in 1..Len(mus_doc.entries) : ~EndsInMp3(mus_doc.entries[i]))
        => mus_result.kind = "err"

\* C20 as stated: with a sound directory in the install, a structurally valid
\* music script is accepted only if every normalized file value is in the
\* union of the two mp3 snapshots, and is otherwise rejected with an error
\* naming the first normalized value that is not.
C20_ExistenceCheck ==
    (MusCheckedRun /\ IsDir(fs_dirs, SoundG)) =>
        IF \A i \in 1..Len(mus_doc.entries) : MusicFixedPath(mus_doc.entries[i]) \in Mp3Union
        THEN mus_result = MusOk
        ELSE /\ mus_result.kind = "err"
             /\ mus_result.names = {MusicFixedPath(mus_doc.entries[FirstMissingValue])}

-----------------------------------------------------------------------------
(* Claims about the structure of music scripts and reslists.               *)

\* C21 (SpecMus): a music script the validator accepts has a root block
\* labelled music that holds one entry at least; a script whose root block is
\* empty is rejected.
C21_MusicStructuralShape ==
    (mus_pc = "done" /\ mus_result = MusOk /\ ~mus_created) =>
        /\ mus_doc.label \in {"music", "\"music\""}
        /\ Len(mus_doc.entries) >= 1

\* The parts of C21 the expression does enforce (SpecShape): a text that FILE_RE
\* matches has the label music, balanced braces, no empty sub-block and no
\* sub-block inside a sub-block.
MusicShapeEnforced ==
    (shape_pc = "done" /\ shape_dialect = "music" /\ shape_result = "match") =>
        /\ shape_doc.label \in { <<"music">>, <<"\"", "music", "\"">> }
        /\ shape_doc.defect = "none"
        /\ \A i \in 1..Len(shape_doc.items) :
              shape_doc.items[i].kind = "block" =>
                  /\ shape_doc.items[i].items # <<>>
                  /\ \A j \in 1..Len(shape_doc.items[i].items) :
                        shape_doc.items[i].items[j].kind = "file"

\* The labels FILE_RE of the reslist spells out, and the case variants of the word.
ResourcesFirstLetterCase ==
    { <<"resources">>, <<"Resources">>,
      <<"\"", "resources", "\"">>, <<"\"", "Resources", "\"">> }
ResourcesAnyCase ==
    ResourcesFirstLetterCase \cup { <<"RESOURCES">>, <<"\"", "RESOURCES", "\"">> }

\* The verdict on the same reslist under the label resources.
VerdictAsResources ==
    IF ReslistFileReMatches(RenderDoc("reslist",
                                      [shape_doc EXCEPT !.label = <<"resources">>]))
    THEN "match" ELSE "format"

\* A block among the items of the root block.
HasNestedBlock == \E i \in 1..Len(shape_doc.items) : shape_doc.items[i].kind = "block"

\* C22 (as claimed): reslists that differ only in the letter case of the label
\* resources, quoted or not, get the same structural verdict; any other label,
\* an empty root block or a nested block is rejected.
C22_LabelCaseInsensitive ==
    (shape_pc = "done" /\ shape_dialect = "reslist") =>
        /\ shape_doc.label \in ResourcesAnyCase => shape_result = VerdictAsResources
        /\ shape_doc.label \notin ResourcesAnyCase => shape_result = "format"
        /\ shape_doc.items = <<>> => shape_result = "format"
        /\ HasNestedBlock => shape_result = "format"

\* C22 (amended): the label is resources with the first letter in either case,
\* quoted or not: reslists that differ only in that get the same structural
\* verdict; any other label, RESOURCES among them, an empty root block or a
\* nested block is rejected; and the verdict is a match exactly for such a label
\* followed by one balanced block of one or more `<path> file` entries.
C22_LabelFirstLetterCase ==
    (shape_pc = "done" /\ shape_dialect = "reslist") =>
        /\ shape_doc.label \in ResourcesFirstLetterCase =>
              shape_result = VerdictAsResources
        /\ shape_doc.label \notin ResourcesFirstLetterCase => shape_result = "format"
        /\ shape_doc.items = <<>> => shape_result = "format"
        /\ HasNestedBlock => shape_result = "format"
        /\ shape_result = "match" <=>
              /\ shape_doc.label \in ResourcesFirstLetterCase
              /\ shape_doc.defect = "none"
              /\ shape_doc.items # <<>>
              /\ ~HasNestedBlock

\* A reslist labelled "Resources", in quotation marks, with two entries passed
\* the structural check.
C22_Witness ==
    /\ shape_pc = "done"
    /\ shape_dialect = "reslist"
    /\ shape_doc.label = <<"\"", "Resources", "\"">>
    /\ Len(shape_doc.items) = 2
    /\ shape_result = "match"

-----------------------------------------------------------------------------
(* Claims about argument validation (SpecArg).                             *)

-----------------------------------------------------------------------------
(* Claims about the fullcheck sweep (SpecSweep).                           *)

\* The files the sweep of the dialect at hand is about: those below the
\* dialect's directory of the install with the dialect's extension.
SweptDir ==
    CASE sw_dialect = "map"     -> <<"i", "/", "gesource", "/", "scripts", "/", "maps">>
      [] sw_dialect = "music"   -> <<"i", "/", "gesource", "/", "scripts", "/", "music">>
      [] sw_dialect = "reslist" -> <<"i", "/", "gesource", "/", "maps">>

SweptFiles ==
    { f \in FilesBelow(fs_files, SweptDir) :
        ToLowercase(get_file_extension(f)) =
            (IF sw_dialect = "reslist" THEN <<"r", "e", "s">> ELSE <<"t", "x", "t">>) }

SweptValidator ==
    CASE sw_dialect = "map"     -> "check_map_script_file"
      [] sw_dialect = "music"   -> "check_music_script_file"
      [] sw_dialect = "reslist" -> "check_reslist"

-----------------------------------------------------------------------------
(* Claims about a single release run (SpecRun).                            *)

\* C25: the cache of the reslist's snapshot is filled by the reslist step and
\* by nothing before it, when the map and the music step are over; so a reslist
\* written in a run that also wrote the map script and the music script has an
\* entry for each of the two.
C25_ReslistListsNewScripts ==
    /\ (has_init["reslist"] \/ walks["reslist"] > 0) =>
          /\ run_task["map"] = "done"
          /\ run_task["music"] = "done"
          /\ run_task["reslist"] = "done"
    /\ ( /\ run_reslist.written
         /\ run_exists0["map"] = "absent"   /\ run_result["map"] = "ok"
         /\ run_exists0["music"] = "absent" /\ run_result["music"] = "ok" ) =>
          /\ <<"scripts", "/", "maps", "/", "m", ".", "t", "x", "t">>
                \in run_reslist.entries
          /\ <<"scripts", "/", "music", "/", "level_music_", "m", ".", "t", "x", "t">>
                \in run_reslist.entries

\* A run that found none of the three scripts wrote all of them and ended.
C25_Witness ==
    /\ run_main = "exited"
    /\ run_exists0 = [d \in Dialects |-> "absent"]
    /\ \A d \in Dialects : run_result[d] = "ok" /\ ScriptPath(d) \in run_written
    /\ run_reslist.written

\* The script of dialect d was there when the run began.
Existed(d) == run_exists0[d] # "absent"

\* What holds of every call of a create_or_verify_* function, Ok or not: a
\* script that was there is checked and not written, one that was not there is
\* not checked, and it is still there afterwards.
CreateOrVerifyFrame(d) ==
    /\ Existed(d) => /\ ScriptPath(d) \notin run_written
                     /\ ScriptPath(d) \in run_checked
                     /\ ScriptPath(d) \in fs_files
    /\ ~Existed(d) => ScriptPath(d) \notin run_checked

\* C29, as stated: a call of create_or_verify_* that returned Ok wrote the
\* script exactly when it was not there, an existing script is checked and
\* never written, and a script just written is not checked.
C29_CreateIffAbsent ==
    \A d \in Dialects :
        run_task[d] = "done" =>
            /\ CreateOrVerifyFrame(d)
            /\ run_result[d] = "ok" => (ScriptPath(d) \in run_written <=> ~Existed(d))

\* C29, amended: as above, except that create_or_verify_reslist returns Ok
\* without writing a reslist when the snapshot of the release root is empty.
C29_CreateUnlessEmptyRoot ==
    \A d \in Dialects :
        run_task[d] = "done" =>
            /\ CreateOrVerifyFrame(d)
            /\ run_result[d] = "ok" =>
                  (ScriptPath(d) \in run_written <=>
                      /\ ~Existed(d)
                      /\ ~(d = "reslist" /\ directory_cache["reslist"] = Some({})))

\* The reslist step returned Ok and left the release without a reslist: the
\* map and the music script could not be written and nothing else is in it.
C29_Witness ==
    /\ run_task["reslist"] = "done"
    /\ run_result["reslist"] = "ok"
    /\ ~Existed("reslist")
    /\ ScriptPath("reslist") \notin fs_files
    /\ directory_cache["reslist"] = Some({})

-----------------------------------------------------------------------------
(* Claims about the map script generator (SpecGen). *)

\* C18: for every choice of the five i32 parameters, negative ones and the two
\* ends of the range included, check_map_script_file accepts the file that
\* create_map_script_file wrote, unless reading it fails.
C18_MapRoundTrip ==
    (map_file # NoFile /\ map_pc = "done" /\ map_result.type # "Io") => map_result = MapOk

\* C18 witness: the file written with baseweight i32::MIN, maxplayers i32::MAX
\* and teamthresh -1 was read to its end and accepted.
C18_Witness ==
    /\ map_pc = "done"
    /\ map_eof
    /\ map_result = MapOk
    /\ map_idx = Len(MapScriptContents(map_args)) + 1
    /\ map_args.baseweight = -2147483647 - 1
    /\ map_args.maxplayers = 2147483647
    /\ map_args.teamthresh = -1

-----------------------------------------------------------------------------
(* Claims about the map script validator.                                  *)

\* C7: the validator accepts exactly when the end of the file is reached (so no
\* error was raised on the way) outside any section with no flat field and no
\* section still pending; ending inside a section is an error naming the section.
C7_TerminalAcceptance ==
    map_pc = "done" =>
        /\ (map_result.kind = "ok") <=>
              /\ map_eof
              /\ checking_term = <<>>
              /\ needed_value_terms = <<>>
              /\ needed_bracket_terms = <<>>
        /\ (map_eof /\ checking_term # <<>>) =>
              map_result = MapErr("EndsInSection", <<checking_term>>)
        /\ ~map_eof => map_result.kind = "err"

C7_Witness ==
    /\ map_pc = "done"
    /\ map_result.kind = "ok"
    /\ map_eof

\* C8 (as claimed): a script that ends with both a flat field and a section
\* missing is rejected with one message naming every missing field and section.
C8_AllMissingNamed ==
    ( /\ map_pc = "done" /\ map_eof /\ checking_term = <<>>
      /\ needed_value_terms # <<>> /\ needed_bracket_terms # <<>> ) =>
        /\ map_result.kind = "err"
        /\ SeqToSet(map_result.names) =
              SeqToSet(needed_value_terms) \cup SeqToSet(needed_bracket_terms)

\* C9 (as claimed): no accepted document contains a `name value` line whose
\* value is not a whole number, wherever the line stands.
C9_NoNonIntegerAccepted ==
    map_result.kind = "ok" => ~map_seen.nonint

\* C9 (amended): a `name value` line whose value is not an i32 is a format error
\* naming the field when it is read at top level under a pending required flat
\* field's name or inside a section on a line that does not start with a brace.
C9_ReadValuesAreIntegers ==
    map_seen.readbad =>
        /\ map_pc = "done"
        /\ map_result = MapErr("NotWholeNumber", <<map_seen.badname>>)

C9_Witness ==
    /\ map_seen.readbad
    /\ checking_term # <<>>
    /\ map_result.kind = "err"

\* A step of the loop: a line was read (neither the end of the file nor an
\* I/O error).
MapLineRead ==
    /\ map_pc = "reading"
    /\ ~map_eof'
    /\ map_result'.type # "Io"

\* The line holds nothing but the closing brace and whitespace.
BraceAlone(line) == SplitWhitespace(line) = << <<"}">> >>

\* The line is `name value }`: a field, whitespace, then the brace.
FieldThenBrace(line) ==
    /\ Len(SplitWhitespace(line)) = 3
    /\ SplitWhitespace(line)[3] = <<"}">>

\* C26: inside a section, a line that holds the closing brace alone (with or
\* without whitespace before it) or after a `name value` field with a whole
\* number value ends the section: the validator is back at top level and the
\* section is no longer pending; when the field's value is not a whole number
\* the line is a format error.
C26_ClosingBraceEndsSection ==
    [][ ( /\ MapLineRead
          /\ checking_term # <<>>
          /\ BraceAlone(map_line') \/ FieldThenBrace(map_line') )
        => IF BraceAlone(map_line') \/ ParsesAsI32(SplitWhitespace(map_line')[2])
           THEN /\ map_result'.kind # "err"
                /\ checking_term' = <<>>
                /\ ~SeqContains(needed_bracket_terms', checking_term)
           ELSE map_result'.kind = "err" ]_vars

\* The required sections that were closed: a name leaves needed_bracket_terms
\* when its section is closed and at no other place.
ClosedSections == SeqToSet(NeededBracketTerms0) \ SeqToSet(needed_bracket_terms)

\* C27: the validator is never inside a section that was closed before; a close
\* takes the section out of the pending ones, which it was in, and nothing puts
\* it back; from inside a section the only way on is to close it; and a
\* top-level line carrying the name of a closed section changes neither the
\* state nor the pending fields and sections; an accepted script had every
\* required section closed.
C27_SectionsNeverReopened ==
    [][ /\ checking_term' # <<>> => SeqContains(needed_bracket_terms', checking_term')
        /\ SeqToSet(needed_bracket_terms') \subseteq SeqToSet(needed_bracket_terms)
        /\ (checking_term # <<>> /\ checking_term' # checking_term) =>
              /\ checking_term' = <<>>
              /\ SeqContains(needed_bracket_terms, checking_term)
              /\ needed_bracket_terms' = Retain(needed_bracket_terms, checking_term)
        /\ ( /\ MapLineRead
             /\ checking_term = <<>>
             /\ SplitWhitespace(map_line') # <<>>
             /\ SplitWhitespace(map_line')[1] \in ClosedSections ) =>
              /\ checking_term' = <<>>
              /\ map_result'.kind # "err"
              /\ UNCHANGED <<needed_value_terms, needed_bracket_terms>>
        /\ map_result'.kind = "ok" => ClosedSections' = SeqToSet(NeededBracketTerms0) ]_vars

\* A closed section's name was read again at top level, and the run went on.
C27_Witness ==
    /\ map_pc = "reading"
    /\ checking_term = <<>>
    /\ SplitWhitespace(map_line) # <<>>
    /\ SplitWhitespace(map_line)[1] = <<"WeaponsetWeights">>
    /\ <<"WeaponsetWeights">> \in ClosedSections

\* The files the roots of a walk with arguments k held from the start of the
\* run on (files are created during a run, none is removed).
RootFilesFromStart(k) ==
    UNION { get_files_in_directory(CacheFiles0, CacheDirs0, k.dirs[i], k.target,
                                   k.excluded) : i \in 1..Len(k.dirs) }

\* C30: a walk that fails returns the error with the guard dropped and the flag
\* still false; the next requester that takes the guard starts from the empty
\* list; and a list a call returns with Ok holds the files of every root of the
\* walk that filled the cache, never those of a part of the roots.
C30_FailedWalkNotCached ==
    [][ \A t \in Threads :
          LET c == CacheOf(th[t].site) IN
          /\ (th[t].pc = "walk" /\ th'[t].ret.kind = "err") =>
                /\ th'[t].pc = "idle"
                /\ mutex'[c] = NoThread
                /\ ~has_init'[c]
          /\ (th[t].pc = "lock" /\ th'[t].pc = "walk") =>
                directory_cache'[c] = Some({})
          /\ th'[t].ret.kind = "ok" =>
                RootFilesFromStart(snap_key'[CacheOf(th'[t].site)]) \subseteq th'[t].ret.seen ]_vars

\* The walk of the two sound directories failed after the first was appended:
\* the list of the first root sits in the cache, the flag is false, the guard
\* is free and another requester is about to take it.
C30_Witness ==
    /\ failed_walks["mp3"] >= 1
    /\ ~has_init["mp3"]
    /\ directory_cache["mp3"] # None
    /\ directory_cache["mp3"] # Some({})
    /\ mutex["mp3"] = NoThread
    /\ \E t \in Threads : th[t].pc = "lock" /\ th[t].site = "mp3"
                          /\ Len(th[t].key.dirs) = 2

====
